---- MODULE Spec2Model ----
(***************************************************************************)
(* A model of gee-cache: the byte-bounded LRU engine (package lru), the    *)
(* single-flight primitive (package singleflight) and the Group load       *)
(* pipeline (package geecache) on top of the mutex-guarded cache shell.    *)
(*                                                                         *)
(* The consistent-hash ring (package consistenthash), the peer pool, the   *)
(* group registry and byte-views over shared memory follow.                *)
(*                                                                         *)
(* Nine specifications share the module:                                   *)
(*   LruSpec    one lru.Cache driven by Add / Get / RemoveOldest           *)
(*   SfSpec     goroutines calling singleflight.Group.Do                   *)
(*   SfLiveSpec SfSpec with fair scheduling of the goroutines              *)
(*   GroupSpec  goroutines calling geecache.Group.Get, RegisterPeers       *)
(*   RingSpec   one consistenthash.Map driven by Add / Get                 *)
(*   PoolSpec   goroutines calling HTTPPool.Set and HTTPPool.PickPeer      *)
(*   RegSpec    goroutines calling NewGroup and GetGroup                   *)
(*   ViewSpec   ByteViews made by getLocally / getFromPeer, their          *)
(*              accessors, and writes by code outside the package          *)
(*   ShellSpec  goroutines calling cache.add and cache.get on one shell    *)
(* Strings are Go strings: Len(s) is len(s).                               *)
(***************************************************************************)
EXTENDS Integers, Sequences, FiniteSets, TLC

VARIABLES
    lru,        \* the lru.Cache under test (LruSpec)
    lastOp,     \* the last public call made on lru and what it returned
    touched,    \* keys by last use (Add, or Get that found), latest first
    sfMu,       \* singleflight.Group.mu: 0 when free, else the holder
    sfM,        \* singleflight.Group.m: key -> call (index into sfCalls)
    sfMade,     \* singleflight.Group.m # nil
    sfCalls,    \* the call records allocated so far: [wg, val, err]
    sfPc,       \* where each goroutine is inside Do
    sfKey,      \* the key argument of each goroutine's Do
    sfC,        \* the local c of each goroutine's Do (0: none yet)
    sfTmp,      \* what fn() returned, before it is stored on the call
    sfRet,      \* what Do returned to each goroutine
    fnLog,      \* per call record, what each evaluation of fn for it returned
    nDo,        \* number of Do calls started
    peers,      \* geecache.Group.peers: <<>> is nil, else <<picker>>
    mainCache,  \* geecache.Group.mainCache: [lru, cacheBytes]
    gPc,        \* where each goroutine is inside Group.Get
    gKey,       \* the key argument of each goroutine's Get
    gLoc,       \* the locals of each goroutine's Get and what it did
    gRet,       \* what Get returned: [value, err]
    loadCounts, \* number of getter.Get calls per key
    peerCounts, \* number of PeerGetter.Get calls per key
    nGet,       \* number of Group.Get calls started
    gEvicted,   \* the keys mainCache has evicted so far
    panicked,   \* RegisterPeers panicked
    rArg,       \* per goroutine inside RegisterPeers: <<peers argument, where
                \* it returns to>>, else <<>>
    ring,       \* the consistenthash.Map under test (RingSpec)
    added,      \* the argument lists of the Add calls made on ring, in order
    ringLast,   \* the last Get made on ring: <<key, node returned>>, else <<>>
    pool,       \* the HTTPPool: [self, peers, httpGetters], <<>> for nil
    setters,    \* per goroutine calling Set: [pc, ids, i]
    picks,      \* per goroutine calling PickPeer: what its last call returned
    poolHist,   \* the Set calls so far: [started, done, last, overlap]
    poolPanic,  \* PickPeer dereferenced the nil p.peers
    mu,         \* the package's mu: [w, r], the writer (0: none) and the readers
    groups,     \* the package's groups map: name -> *Group
    rg,         \* per goroutine in NewGroup / GetGroup: [pc, name, g, ret]
    newest,     \* per name, the Group the latest NewGroup made (nil: none)
    nNew,       \* number of Groups made so far
    regPanic,   \* NewGroup panicked on a nil getter
    heap,       \* the byte arrays allocated so far, by address
    views,      \* the ByteViews made so far: [b, orig, from]
    ext,        \* the addresses code outside the package holds a slice of
    bvRead,     \* the last accessor call on a view: [view, op, out]
    shell,      \* a cache shell: [mu, lru, cacheBytes], lru <<>> for nil
    shProc,     \* per goroutine in cache.add / cache.get: where it is, its
                \* arguments, what get returns, whether it found lru nil
    built,      \* number of lru.New calls the shell has made
    shAdded,    \* the keys the shell has passed to lru.Add
    nShell      \* number of add and get calls started on the shell

lruVars == <<lru, lastOp, touched>>
sfVars == <<sfMu, sfM, sfMade, sfCalls, sfPc, sfKey, sfC, sfTmp, sfRet, fnLog, nDo>>
grVars == <<peers, mainCache, gPc, gKey, gLoc, gRet, loadCounts, peerCounts, nGet, gEvicted, panicked, rArg>>
ringVars == <<ring, added, ringLast>>
poolVars == <<pool, setters, picks, poolHist, poolPanic>>
regVars == <<mu, groups, rg, newest, nNew, regPanic>>
viewVars == <<heap, views, ext, bvRead>>
shellVars == <<shell, shProc, built, shAdded, nShell>>
vars == <<lruVars, sfVars, grVars, ringVars, poolVars, regVars, viewVars, shellVars>>
\* What the actions of one package leave alone: the other packages' state.
lruFrame == <<sfVars, grVars, ringVars, poolVars, regVars, viewVars, shellVars>>
sfFrame == <<lruVars, grVars, ringVars, poolVars, regVars, viewVars, shellVars>>
grFrame == <<lruVars, sfVars, ringVars, poolVars, regVars, viewVars, shellVars>>
ringFrame == <<lruVars, sfVars, grVars, poolVars, regVars, viewVars, shellVars>>
poolFrame == <<lruVars, sfVars, grVars, ringVars, regVars, viewVars, shellVars>>
regFrame == <<lruVars, sfVars, grVars, ringVars, poolVars, viewVars, shellVars>>
viewFrame == <<lruVars, sfVars, grVars, ringVars, poolVars, regVars, shellVars>>
shellFrame == <<lruVars, sfVars, grVars, ringVars, poolVars, regVars, viewVars>>

(***************************************************************************)
(* Bounds                                                                  *)
(***************************************************************************)
MaxEvicted == 2     \* calls are made while the eviction log is shorter
NumCallers == 2     \* goroutines calling Do
MaxDo == 2          \* Do calls started in one behaviour
NumGetters == 2     \* goroutines calling Group.Get
NumSetters == 1     \* goroutines calling HTTPPool.Set
MaxSet == 2         \* Set calls started in one behaviour
MaxAdds == 2        \* Map.Add calls made in one behaviour
MaxGet == 2         \* Group.Get calls started in one behaviour
NumRegProcs == 2    \* goroutines calling NewGroup / GetGroup
MaxNew == 2         \* NewGroup calls started in one behaviour
MaxHeap == 3        \* byte arrays allocated in one behaviour
NumShellProcs == 2  \* goroutines calling cache.add / cache.get
MaxShellOps == 3    \* add and get calls started on the shell in one behaviour

LruKeys == {"a", "bb", "ccc"}
LruVals == {"", "x", "yyy"}
\* maxBytes is an int64 and New takes any: a negative one too.
LruCaps == {-1, 0, 3, 5}

(***************************************************************************)
(* package lru                                                             *)
(***************************************************************************)
\* The empty map / no elements.
NoElems == [e \in {} |-> 0]

\* lru.New: an empty list, an empty map, nbytes 0.  onEvicted says whether
\* a callback was passed; evlog is what the callback has been handed and
\* what it found in the cache when it was called.
New(maxBytes, onEvicted) ==
    [maxBytes |-> maxBytes, nbytes |-> 0, ll |-> <<>>, cache |-> NoElems,
     elems |-> NoElems, OnEvicted |-> onEvicted, evlog |-> <<>>, spin |-> FALSE]

\* list.MoveToFront(ele)
MoveToFront(ll, ele) ==
    <<ele>> \o SelectSeq(ll, LAMBDA e : e # ele)

\* A list element not in use (list.PushFront allocates one).
FreshEle(c) ==
    CHOOSE e \in 1..(Len(c.ll) + 1) : e \notin DOMAIN c.elems

\* Without(f, S): the map f with the keys of S deleted.
Without(f, S) == [k \in DOMAIN f \ S |-> f[k]]

\* What OnEvicted(key, value) is handed, and what it finds when it looks
\* at cache c: the key gone from the map and the list, nbytes less than
\* it was (was) by the entry's size.
Evicted(kv, c, was) ==
    [key |-> kv.key, value |-> kv.value,
     absent |-> /\ kv.key \notin DOMAIN c.cache
                /\ kv.key \notin {c.elems[e].key : e \in DOMAIN c.elems},
     reduced |-> c.nbytes = was - (Len(kv.key) + Len(kv.value))]

\* RemoveOldest that calls OnEvicted first and updates the cache after.
RemoveOldest_CallbackFirst(c) ==
    IF c.ll = <<>> THEN c
    ELSE LET ele == c.ll[Len(c.ll)]
             kv == c.elems[ele]
         IN  [c EXCEPT !.ll = SubSeq(c.ll, 1, Len(c.ll) - 1),
                       !.elems = Without(c.elems, {ele}),
                       !.cache = Without(c.cache, {kv.key}),
                       !.nbytes = @ - (Len(kv.key) + Len(kv.value)),
                       !.evlog = IF c.OnEvicted
                                 THEN Append(@, Evicted(kv, c, c.nbytes)) ELSE @]

\* RemoveOldest that leaves the key in the map.
RemoveOldest_NoDelete(c) ==
    IF c.ll = <<>> THEN c
    ELSE LET ele == c.ll[Len(c.ll)]
             kv == c.elems[ele]
             d == [c EXCEPT !.ll = SubSeq(c.ll, 1, Len(c.ll) - 1),
                            !.elems = Without(c.elems, {ele}),
                            !.nbytes = @ - (Len(kv.key) + Len(kv.value))]
         IN  [d EXCEPT !.evlog = IF c.OnEvicted
                                 THEN Append(@, Evicted(kv, d, c.nbytes)) ELSE @]

\* RemoveOldest that takes the front of the list, not the back.
RemoveOldest_Newest(c) ==
    IF c.ll = <<>> THEN c
    ELSE LET ele == c.ll[1]
             kv == c.elems[ele]
             d == [c EXCEPT !.ll = SubSeq(c.ll, 2, Len(c.ll)),
                            !.elems = Without(c.elems, {ele}),
                            !.cache = Without(c.cache, {kv.key}),
                            !.nbytes = @ - (Len(kv.key) + Len(kv.value))]
         IN  [d EXCEPT !.evlog = IF c.OnEvicted
                                 THEN Append(@, Evicted(kv, d, c.nbytes)) ELSE @]

\* Cache.RemoveOldest: the list, the map and nbytes are updated, then the
\* callback, if any, is called.
RemoveOldest(c) ==
    IF c.ll = <<>> THEN c
    ELSE LET ele == c.ll[Len(c.ll)]
             kv == c.elems[ele]
             d == [c EXCEPT !.ll = SubSeq(c.ll, 1, Len(c.ll) - 1),
                            !.elems = Without(c.elems, {ele}),
                            !.cache = Without(c.cache, {kv.key}),
                            !.nbytes = @ - (Len(kv.key) + Len(kv.value))]
         IN  [d EXCEPT !.evlog = IF c.OnEvicted
                                 THEN Append(@, Evicted(kv, d, c.nbytes)) ELSE @]

\* The loop closing Cache.Add written as an if: one eviction at most.
EvictOnce(c) ==
    IF c.maxBytes # 0 /\ c.maxBytes < c.nbytes THEN RemoveOldest(c) ELSE c

\* The loop closing Cache.Add with maxBytes 0 taken for a limit like any.
RECURSIVE EvictLoop_ZeroIsLimit(_)
EvictLoop_ZeroIsLimit(c) ==
    IF c.maxBytes < c.nbytes
    THEN IF c.ll = <<>> THEN [c EXCEPT !.spin = TRUE]
         ELSE EvictLoop_ZeroIsLimit(RemoveOldest(c))
    ELSE c

\* The loop closing Cache.Add.  RemoveOldest on an empty list changes
\* nothing, so the loop then never ends: spin.
RECURSIVE EvictLoop(_)
EvictLoop(c) ==
    IF c.maxBytes # 0 /\ c.maxBytes < c.nbytes
    THEN IF c.ll = <<>> THEN [c EXCEPT !.spin = TRUE]
         ELSE EvictLoop(RemoveOldest(c))
    ELSE c

\* AddEntry counting the key again when it updates a resident key.
AddEntry_KeyAgain(c, key, value) ==
    IF key \in DOMAIN c.cache
    THEN LET ele == c.cache[key]
             kv == c.elems[ele]
         IN  [c EXCEPT !.ll = MoveToFront(c.ll, ele),
                       !.nbytes = @ + Len(key) + Len(value) - Len(kv.value),
                       !.elems[ele].value = value]
    ELSE LET ele == FreshEle(c)
         IN  [c EXCEPT !.ll = <<ele>> \o c.ll,
                       !.elems = (ele :> [key |-> key, value |-> value]) @@ c.elems,
                       !.cache = (key :> ele) @@ c.cache,
                       !.nbytes = @ + Len(key) + Len(value)]

\* AddEntry leaving a resident key where it is in the list.
AddEntry_NoMove(c, key, value) ==
    IF key \in DOMAIN c.cache
    THEN LET ele == c.cache[key]
             kv == c.elems[ele]
         IN  [c EXCEPT !.nbytes = @ + Len(value) - Len(kv.value),
                       !.elems[ele].value = value]
    ELSE LET ele == FreshEle(c)
         IN  [c EXCEPT !.ll = <<ele>> \o c.ll,
                       !.elems = (ele :> [key |-> key, value |-> value]) @@ c.elems,
                       !.cache = (key :> ele) @@ c.cache,
                       !.nbytes = @ + Len(key) + Len(value)]

\* Cache.Add up to the eviction loop.
AddEntry(c, key, value) ==
    IF key \in DOMAIN c.cache
    THEN LET ele == c.cache[key]
             kv == c.elems[ele]
         IN  [c EXCEPT !.ll = MoveToFront(c.ll, ele),
                       !.nbytes = @ + Len(value) - Len(kv.value),
                       !.elems[ele].value = value]
    ELSE LET ele == FreshEle(c)
         IN  [c EXCEPT !.ll = <<ele>> \o c.ll,
                       !.elems = (ele :> [key |-> key, value |-> value]) @@ c.elems,
                       !.cache = (key :> ele) @@ c.cache,
                       !.nbytes = @ + Len(key) + Len(value)]

\* Cache.Add
Add(c, key, value) == EvictLoop(AddEntry(c, key, value))

\* Cache.Get without the MoveToFront.
GetCache_NoMove(c, key) == c

\* Cache.Get: the cache after the call, and what it returns.
GetCache(c, key) ==
    IF key \in DOMAIN c.cache
    THEN [c EXCEPT !.ll = MoveToFront(c.ll, c.cache[key])]
    ELSE c
GetOk(c, key) == key \in DOMAIN c.cache
GetValue(c, key) ==
    IF key \in DOMAIN c.cache THEN <<c.elems[c.cache[key]].value>> ELSE <<>>

\* Cache.Len
LruLen(c) == Len(c.ll)

\* The recency order as keys, head first, and the resident entries.
KeysOf(c) == [i \in 1..Len(c.ll) |-> c.elems[c.ll[i]].key]
Resident(c) == {c.elems[e].key : e \in DOMAIN c.elems}

(***************************************************************************)
(* LruSpec: calls on one lru.Cache                                         *)
(***************************************************************************)
Touch(seq, key) == <<key>> \o SelectSeq(seq, LAMBDA k : k # key)

LruInit ==
    /\ lru \in {New(mb, cb) : mb \in LruCaps, cb \in BOOLEAN}
    /\ lastOp = [op |-> "New", key |-> "", value |-> <<>>, ok |-> FALSE, had |-> FALSE]
    /\ touched = <<>>

LruIdle ==
    /\ lru = New(0, FALSE)
    /\ lastOp = [op |-> "New", key |-> "", value |-> <<>>, ok |-> FALSE, had |-> FALSE]
    /\ touched = <<>>

\* A caller may call while the callback's log is short and no call hangs.
LruCallable == Len(lru.evlog) < MaxEvicted /\ ~lru.spin

CallAdd(key, value) ==
    /\ LruCallable
    /\ lru' = Add(lru, key, value)
    /\ lastOp' = [op |-> "Add", key |-> key, value |-> <<value>>, ok |-> TRUE,
                  had |-> key \in Resident(lru)]
    /\ touched' = Touch(touched, key)
    /\ UNCHANGED lruFrame

CallGet(key) ==
    /\ LruCallable
    /\ lru' = GetCache(lru, key)
    /\ lastOp' = [op |-> "Get", key |-> key, value |-> GetValue(lru, key),
                  ok |-> GetOk(lru, key), had |-> key \in Resident(lru)]
    /\ touched' = IF key \in Resident(lru) THEN Touch(touched, key) ELSE touched
    /\ UNCHANGED lruFrame

CallRemoveOldest ==
    /\ LruCallable
    /\ lru' = RemoveOldest(lru)
    /\ lastOp' = [op |-> "RemoveOldest", key |-> "", value |-> <<>>, ok |-> lru.ll # <<>>,
                  had |-> FALSE]
    /\ touched' = touched
    /\ UNCHANGED lruFrame

LruNext ==
    \/ \E key \in LruKeys, value \in LruVals : CallAdd(key, value)
    \/ \E key \in LruKeys : CallGet(key)
    \/ CallRemoveOldest

(***************************************************************************)
(* package singleflight                                                    *)
(***************************************************************************)
SfProcs == 1..NumCallers
SfKeys == {"k1", "k2"}
\* What a thunk may return: (val, err).
SfOuts == {[val |-> "v1", err |-> "nil"], [val |-> "nil", err |-> "e1"]}
\* The zero (val, err) of a new call.
SfZero == [val |-> "nil", err |-> "nil"]

SfInit ==
    /\ sfMu = 0
    /\ sfM = NoElems
    /\ sfMade = FALSE
    /\ sfCalls = <<>>
    /\ sfPc = [p \in SfProcs |-> "idle"]
    /\ sfKey = [p \in SfProcs |-> "k1"]
    /\ sfC = [p \in SfProcs |-> 0]
    /\ sfTmp = [p \in SfProcs |-> SfZero]
    /\ sfRet = [p \in SfProcs |-> SfZero]
    /\ fnLog = <<>>
    /\ nDo = 0

\* A goroutine calls Do(key, fn) and reaches g.mu.Lock().
DoEnter(p, key) ==
    /\ sfPc[p] = "idle"
    /\ nDo < MaxDo
    /\ nDo' = nDo + 1
    /\ sfPc' = [sfPc EXCEPT ![p] = "lock"]
    /\ sfKey' = [sfKey EXCEPT ![p] = key]
    /\ sfC' = [sfC EXCEPT ![p] = 0]
    /\ sfTmp' = [sfTmp EXCEPT ![p] = SfZero]
    /\ sfRet' = [sfRet EXCEPT ![p] = SfZero]
    /\ UNCHANGED <<sfMu, sfM, sfMade, sfCalls, fnLog, sfFrame>>

\* g.mu.Lock() at the top of Do.
DoLock(p) ==
    /\ sfPc[p] = "lock"
    /\ sfMu = 0
    /\ sfMu' = p
    /\ sfPc' = [sfPc EXCEPT ![p] = "locked"]
    /\ UNCHANGED <<sfM, sfMade, sfCalls, sfKey, sfC, sfTmp, sfRet, fnLog, nDo, sfFrame>>

\* DoLookup with the lookup left out: every caller inserts its own call.
DoLookup_NoJoin(p) ==
    /\ sfPc[p] = "locked"
    /\ sfMu = p
    /\ sfMade' = TRUE
    /\ sfMu' = 0
    /\ sfCalls' = Append(sfCalls, [wg |-> 1, val |-> "nil", err |-> "nil"])
    /\ sfC' = [sfC EXCEPT ![p] = Len(sfCalls) + 1]
    /\ sfM' = (sfKey[p] :> (Len(sfCalls) + 1)) @@ sfM
    /\ fnLog' = Append(fnLog, <<>>)
    /\ sfPc' = [sfPc EXCEPT ![p] = "fn"]
    /\ UNCHANGED <<sfKey, sfTmp, sfRet, nDo, sfFrame>>

\* DoLookup that keeps g.mu while the new call's fn runs.
DoLookup_HoldGuard(p) ==
    /\ sfPc[p] = "locked"
    /\ sfMu = p
    /\ sfMade' = TRUE
    /\ IF sfKey[p] \in DOMAIN sfM
       THEN /\ sfC' = [sfC EXCEPT ![p] = sfM[sfKey[p]]]
            /\ sfPc' = [sfPc EXCEPT ![p] = "wait"]
            /\ sfMu' = 0
            /\ UNCHANGED <<sfM, sfCalls, fnLog>>
       ELSE /\ sfCalls' = Append(sfCalls, [wg |-> 1, val |-> "nil", err |-> "nil"])
            /\ sfC' = [sfC EXCEPT ![p] = Len(sfCalls) + 1]
            /\ sfM' = (sfKey[p] :> (Len(sfCalls) + 1)) @@ sfM
            /\ fnLog' = Append(fnLog, <<>>)
            /\ sfPc' = [sfPc EXCEPT ![p] = "fn"]
            /\ UNCHANGED sfMu
    /\ UNCHANGED <<sfKey, sfTmp, sfRet, nDo, sfFrame>>

\* Under the lock: make the map, then either find the key's call and go
\* wait on it, or insert a new call with wg.Add(1); unlock.
DoLookup(p) ==
    /\ sfPc[p] = "locked"
    /\ sfMu = p
    /\ sfMade' = TRUE
    /\ sfMu' = 0
    /\ IF sfKey[p] \in DOMAIN sfM
       THEN /\ sfC' = [sfC EXCEPT ![p] = sfM[sfKey[p]]]
            /\ sfPc' = [sfPc EXCEPT ![p] = "wait"]
            /\ UNCHANGED <<sfM, sfCalls, fnLog>>
       ELSE /\ sfCalls' = Append(sfCalls, [wg |-> 1, val |-> "nil", err |-> "nil"])
            /\ sfC' = [sfC EXCEPT ![p] = Len(sfCalls) + 1]
            /\ sfM' = (sfKey[p] :> (Len(sfCalls) + 1)) @@ sfM
            /\ fnLog' = Append(fnLog, <<>>)
            /\ sfPc' = [sfPc EXCEPT ![p] = "fn"]
    /\ UNCHANGED <<sfKey, sfTmp, sfRet, nDo, sfFrame>>

\* DoWait with c.wg.Wait() left out: the waiter returns at once.
DoWait_NoWait(p) ==
    /\ sfPc[p] = "wait"
    /\ sfRet' = [sfRet EXCEPT ![p] = [val |-> sfCalls[sfC[p]].val, err |-> sfCalls[sfC[p]].err]]
    /\ sfPc' = [sfPc EXCEPT ![p] = "idle"]
    /\ UNCHANGED <<sfMu, sfM, sfMade, sfCalls, sfKey, sfC, sfTmp, fnLog, nDo, sfFrame>>

\* DoWait in which the waiter, too, deletes the key on its way out.
DoWait_Delete(p) ==
    /\ sfPc[p] = "wait"
    /\ sfCalls[sfC[p]].wg = 0
    /\ sfM' = Without(sfM, {sfKey[p]})
    /\ sfRet' = [sfRet EXCEPT ![p] = [val |-> sfCalls[sfC[p]].val, err |-> sfCalls[sfC[p]].err]]
    /\ sfPc' = [sfPc EXCEPT ![p] = "idle"]
    /\ UNCHANGED <<sfMu, sfMade, sfCalls, sfKey, sfC, sfTmp, fnLog, nDo, sfFrame>>

\* c.wg.Wait(); return c.val, c.err
DoWait(p) ==
    /\ sfPc[p] = "wait"
    /\ sfCalls[sfC[p]].wg = 0
    /\ sfRet' = [sfRet EXCEPT ![p] = [val |-> sfCalls[sfC[p]].val, err |-> sfCalls[sfC[p]].err]]
    /\ sfPc' = [sfPc EXCEPT ![p] = "idle"]
    /\ UNCHANGED <<sfMu, sfM, sfMade, sfCalls, sfKey, sfC, sfTmp, fnLog, nDo, sfFrame>>

\* fn() runs and returns out.
DoFn(p, out) ==
    /\ sfPc[p] = "fn"
    /\ sfTmp' = [sfTmp EXCEPT ![p] = out]
    /\ fnLog' = [fnLog EXCEPT ![sfC[p]] = Append(@, out)]
    /\ sfPc' = [sfPc EXCEPT ![p] = "store"]
    /\ UNCHANGED <<sfMu, sfM, sfMade, sfCalls, sfKey, sfC, sfRet, nDo, sfFrame>>

\* fn() panics.  Do has no defer and no recover: the panic unwinds Do
\* from line 74, so neither c.wg.Done() nor the delete runs.  The caller's
\* goroutine is done with this call (a recover further up, as net/http has
\* around a handler, keeps the program running).
DoPanic(p) ==
    /\ sfPc[p] = "fn"
    /\ sfPc' = [sfPc EXCEPT ![p] = "panicked"]
    /\ UNCHANGED <<sfMu, sfM, sfMade, sfCalls, sfKey, sfC, sfTmp, sfRet, fnLog, nDo, sfFrame>>

\* c.val, c.err = (what fn returned)
DoStore(p) ==
    /\ sfPc[p] = "store"
    /\ sfCalls' = [sfCalls EXCEPT ![sfC[p]].val = sfTmp[p].val, ![sfC[p]].err = sfTmp[p].err]
    /\ sfPc' = [sfPc EXCEPT ![p] = "done"]
    /\ UNCHANGED <<sfMu, sfM, sfMade, sfKey, sfC, sfTmp, sfRet, fnLog, nDo, sfFrame>>

\* DoDone that leaves the latch closed.
DoDone_NoDone(p) ==
    /\ sfPc[p] = "done"
    /\ sfPc' = [sfPc EXCEPT ![p] = "relock"]
    /\ UNCHANGED <<sfMu, sfM, sfMade, sfCalls, sfKey, sfC, sfTmp, sfRet, fnLog, nDo, sfFrame>>

\* c.wg.Done()
DoDone(p) ==
    /\ sfPc[p] = "done"
    /\ sfCalls' = [sfCalls EXCEPT ![sfC[p]].wg = @ - 1]
    /\ sfPc' = [sfPc EXCEPT ![p] = "relock"]
    /\ UNCHANGED <<sfMu, sfM, sfMade, sfKey, sfC, sfTmp, sfRet, fnLog, nDo, sfFrame>>

\* g.mu.Lock() before the delete.
DoRelock(p) ==
    /\ sfPc[p] = "relock"
    /\ sfMu = 0
    /\ sfMu' = p
    /\ sfPc' = [sfPc EXCEPT ![p] = "delete"]
    /\ UNCHANGED <<sfM, sfMade, sfCalls, sfKey, sfC, sfTmp, sfRet, fnLog, nDo, sfFrame>>

\* delete(g.m, key); g.mu.Unlock()
DoDelete(p) ==
    /\ sfPc[p] = "delete"
    /\ sfMu = p
    /\ sfM' = Without(sfM, {sfKey[p]})
    /\ sfMu' = 0
    /\ sfPc' = [sfPc EXCEPT ![p] = "return"]
    /\ UNCHANGED <<sfMade, sfCalls, sfKey, sfC, sfTmp, sfRet, fnLog, nDo, sfFrame>>

\* return c.val, c.err
DoReturn(p) ==
    /\ sfPc[p] = "return"
    /\ sfRet' = [sfRet EXCEPT ![p] = [val |-> sfCalls[sfC[p]].val, err |-> sfCalls[sfC[p]].err]]
    /\ sfPc' = [sfPc EXCEPT ![p] = "idle"]
    /\ UNCHANGED <<sfMu, sfM, sfMade, sfCalls, sfKey, sfC, sfTmp, fnLog, nDo, sfFrame>>

SfNext ==
    \/ \E p \in SfProcs, key \in SfKeys : DoEnter(p, key)
    \/ \E p \in SfProcs : DoLock(p)
    \/ \E p \in SfProcs : DoLookup(p)
    \/ \E p \in SfProcs : DoWait(p)
    \/ \E p \in SfProcs, out \in SfOuts : DoFn(p, out)
    \/ \E p \in SfProcs : DoPanic(p)
    \/ \E p \in SfProcs : DoStore(p)
    \/ \E p \in SfProcs : DoDone(p)
    \/ \E p \in SfProcs : DoRelock(p)
    \/ \E p \in SfProcs : DoDelete(p)
    \/ \E p \in SfProcs : DoReturn(p)

(***************************************************************************)
(* package geecache: ByteView, the cache shell, Group                      *)
(***************************************************************************)
GProcs == 1..NumGetters
GKeys == {"", "a", "bb"}
\* Byte slices: "x" and "yy".
GBytes == {<<120>>, <<121, 121>>}
GroupCaps == {0, 3}
\* The pickers RegisterPeers may be handed: the keys each routes to a
\* remote peer (PickPeer returns ok for exactly these).
Pickers == {{}, {"a"}}
\* What getter.Get and PeerGetter.Get may return.
LoadOuts == {[bytes |-> b, err |-> "nil"] : b \in GBytes} \cup {[bytes |-> <<>>, err |-> "loadErr"]}
PeerOuts == {[bytes |-> <<112>>, err |-> "nil"], [bytes |-> <<>>, err |-> "peerErr"]}

\* cloneBytes: a new slice with the same bytes.
cloneBytes(b) == [i \in 1..Len(b) |-> b[i]]

\* cache.add: under c.mu, make the lru on first use, then lru.Add.
add(c, key, value) ==
    LET l == IF c.lru = <<>> THEN New(c.cacheBytes, FALSE) ELSE c.lru[1]
    IN  [c EXCEPT !.lru = <<Add(l, key, value)>>]

\* cache.get that never finds a key.
get_Miss(c, key) == [cache |-> c, value |-> <<>>, ok |-> FALSE]

\* cache.get: under c.mu; (zero, false) while the lru is nil.
get(c, key) ==
    IF c.lru = <<>>
    THEN [cache |-> c, value |-> <<>>, ok |-> FALSE]
    ELSE [cache |-> [c EXCEPT !.lru = <<GetCache(c.lru[1], key)>>],
          value |-> IF GetOk(c.lru[1], key) THEN GetValue(c.lru[1], key)[1] ELSE <<>>,
          ok |-> GetOk(c.lru[1], key)]

\* The keys resident in a cache shell.
Held(c) == IF c.lru = <<>> THEN {} ELSE Resident(c.lru[1])
HeldValue(c, key) == c.lru[1].elems[c.lru[1].cache[key]].value

\* PeerPicker.PickPeer of the registered picker.
PickPeer(key) == key \in peers[1]

GLocZero == [hit |-> FALSE, held |-> FALSE, heldValue |-> <<>>, picked |-> FALSE,
             peer |-> "none", load |-> "none", bytes |-> <<>>]

GroupInit ==
    /\ peers = <<>>
    /\ mainCache \in {[lru |-> <<>>, cacheBytes |-> n] : n \in GroupCaps}
    /\ gPc = [p \in GProcs |-> "idle"]
    /\ gKey = [p \in GProcs |-> ""]
    /\ gLoc = [p \in GProcs |-> GLocZero]
    /\ gRet = [p \in GProcs |-> [value |-> <<>>, err |-> "nil"]]
    /\ loadCounts = [k \in GKeys |-> 0]
    /\ peerCounts = [k \in GKeys |-> 0]
    /\ nGet = 0
    /\ gEvicted = {}
    /\ panicked = FALSE
    /\ rArg = [p \in GProcs |-> <<>>]

\* Group.Get without the check of the empty key.
Get_NoKeyCheck(p, key) ==
    /\ ~panicked
    /\ gPc[p] \in {"idle", "returned"}
    /\ nGet < MaxGet
    /\ nGet' = nGet + 1
    /\ gKey' = [gKey EXCEPT ![p] = key]
    /\ IF FALSE
       THEN /\ gRet' = [gRet EXCEPT ![p] = [value |-> <<>>, err |-> "key is required"]]
            /\ gPc' = [gPc EXCEPT ![p] = "returned"]
            /\ gLoc' = [gLoc EXCEPT ![p] = GLocZero]
            /\ UNCHANGED mainCache
       ELSE LET r == get(mainCache, key)
                loc == [GLocZero EXCEPT !.held = key \in Held(mainCache),
                                        !.heldValue = IF key \in Held(mainCache)
                                                      THEN HeldValue(mainCache, key) ELSE <<>>]
            IN  /\ mainCache' = r.cache
                /\ IF r.ok
                   THEN /\ gRet' = [gRet EXCEPT ![p] = [value |-> r.value, err |-> "nil"]]
                        /\ gPc' = [gPc EXCEPT ![p] = "returned"]
                        /\ gLoc' = [gLoc EXCEPT ![p] = [loc EXCEPT !.hit = TRUE]]
                   ELSE /\ gRet' = [gRet EXCEPT ![p] = [value |-> <<>>, err |-> "nil"]]
                        /\ gPc' = [gPc EXCEPT ![p] = "load"]
                        /\ gLoc' = [gLoc EXCEPT ![p] = loc]
    /\ UNCHANGED <<peers, loadCounts, peerCounts, gEvicted, panicked, rArg, grFrame>>

\* Group.Get up to the call of load: the empty key is refused, a key the
\* cache holds is returned, any other goes on to load.
Get(p, key) ==
    /\ ~panicked
    /\ gPc[p] \in {"idle", "returned"}
    /\ nGet < MaxGet
    /\ nGet' = nGet + 1
    /\ gKey' = [gKey EXCEPT ![p] = key]
    /\ IF key = ""
       THEN /\ gRet' = [gRet EXCEPT ![p] = [value |-> <<>>, err |-> "key is required"]]
            /\ gPc' = [gPc EXCEPT ![p] = "returned"]
            /\ gLoc' = [gLoc EXCEPT ![p] = GLocZero]
            /\ UNCHANGED mainCache
       ELSE LET r == get(mainCache, key)
                loc == [GLocZero EXCEPT !.held = key \in Held(mainCache),
                                        !.heldValue = IF key \in Held(mainCache)
                                                      THEN HeldValue(mainCache, key) ELSE <<>>]
            IN  /\ mainCache' = r.cache
                /\ IF r.ok
                   THEN /\ gRet' = [gRet EXCEPT ![p] = [value |-> r.value, err |-> "nil"]]
                        /\ gPc' = [gPc EXCEPT ![p] = "returned"]
                        /\ gLoc' = [gLoc EXCEPT ![p] = [loc EXCEPT !.hit = TRUE]]
                   ELSE /\ gRet' = [gRet EXCEPT ![p] = [value |-> <<>>, err |-> "nil"]]
                        /\ gPc' = [gPc EXCEPT ![p] = "load"]
                        /\ gLoc' = [gLoc EXCEPT ![p] = loc]
    /\ UNCHANGED <<peers, loadCounts, peerCounts, gEvicted, panicked, rArg, grFrame>>

\* Group.load up to the fetch: with a picker registered that picks a
\* remote peer, go to getFromPeer, else to getLocally.
load(p) ==
    /\ ~panicked
    /\ gPc[p] = "load"
    /\ IF peers # <<>> /\ PickPeer(gKey[p])
       THEN /\ gPc' = [gPc EXCEPT ![p] = "peer"]
            /\ gLoc' = [gLoc EXCEPT ![p].picked = TRUE]
       ELSE /\ gPc' = [gPc EXCEPT ![p] = "local"]
            /\ UNCHANGED gLoc
    /\ UNCHANGED <<peers, mainCache, gKey, gRet, loadCounts, peerCounts, nGet, gEvicted, panicked, rArg, grFrame>>

\* getFromPeer that also puts the peer's bytes into mainCache.
getFromPeer_Cache(p, out) ==
    /\ ~panicked
    /\ gPc[p] = "peer"
    /\ peerCounts' = [peerCounts EXCEPT ![gKey[p]] = @ + 1]
    /\ IF out.err = "nil"
       THEN /\ gRet' = [gRet EXCEPT ![p] = [value |-> out.bytes, err |-> "nil"]]
            /\ gLoc' = [gLoc EXCEPT ![p].peer = "ok", ![p].bytes = out.bytes]
            /\ gPc' = [gPc EXCEPT ![p] = "returned"]
            /\ mainCache' = add(mainCache, gKey[p], out.bytes)
       ELSE /\ gRet' = [gRet EXCEPT ![p] = [value |-> <<>>, err |-> out.err]]
            /\ gLoc' = [gLoc EXCEPT ![p].peer = "err"]
            /\ gPc' = [gPc EXCEPT ![p] = "local"]
            /\ UNCHANGED mainCache
    /\ UNCHANGED <<peers, gKey, loadCounts, nGet, gEvicted, panicked, rArg, grFrame>>

\* load that returns the peer's error instead of going on to getLocally.
getFromPeer_Surface(p, out) ==
    /\ ~panicked
    /\ gPc[p] = "peer"
    /\ peerCounts' = [peerCounts EXCEPT ![gKey[p]] = @ + 1]
    /\ gRet' = [gRet EXCEPT ![p] = [value |-> out.bytes, err |-> out.err]]
    /\ gLoc' = [gLoc EXCEPT ![p].peer = IF out.err = "nil" THEN "ok" ELSE "err",
                            ![p].bytes = out.bytes]
    /\ gPc' = [gPc EXCEPT ![p] = "returned"]
    /\ UNCHANGED <<peers, mainCache, gKey, loadCounts, nGet, gEvicted, panicked, rArg, grFrame>>

\* Group.getFromPeer and what load does with its result: the peer's bytes
\* are returned as they are; an error is logged and load goes on.
getFromPeer(p, out) ==
    /\ ~panicked
    /\ gPc[p] = "peer"
    /\ peerCounts' = [peerCounts EXCEPT ![gKey[p]] = @ + 1]
    /\ IF out.err = "nil"
       THEN /\ gRet' = [gRet EXCEPT ![p] = [value |-> out.bytes, err |-> "nil"]]
            /\ gLoc' = [gLoc EXCEPT ![p].peer = "ok", ![p].bytes = out.bytes]
            /\ gPc' = [gPc EXCEPT ![p] = "returned"]
       ELSE /\ gRet' = [gRet EXCEPT ![p] = [value |-> <<>>, err |-> out.err]]
            /\ gLoc' = [gLoc EXCEPT ![p].peer = "err"]
            /\ gPc' = [gPc EXCEPT ![p] = "local"]
    /\ UNCHANGED <<peers, mainCache, gKey, loadCounts, nGet, gEvicted, panicked, rArg, grFrame>>

\* getLocally that remembers a failed load as an empty entry.
getLocally_Negative(p, out) ==
    /\ ~panicked
    /\ gPc[p] = "local"
    /\ loadCounts' = [loadCounts EXCEPT ![gKey[p]] = @ + 1]
    /\ IF out.err # "nil"
       THEN /\ gRet' = [gRet EXCEPT ![p] = [value |-> <<>>, err |-> out.err]]
            /\ gLoc' = [gLoc EXCEPT ![p].load = "err"]
            /\ gPc' = [gPc EXCEPT ![p] = "returned"]
            /\ mainCache' = add(mainCache, gKey[p], <<>>)
       ELSE /\ gLoc' = [gLoc EXCEPT ![p].load = "ok", ![p].bytes = out.bytes]
            /\ gPc' = [gPc EXCEPT ![p] = "populate"]
            /\ UNCHANGED <<gRet, mainCache>>
    /\ UNCHANGED <<peers, gKey, peerCounts, nGet, gEvicted, panicked, rArg, grFrame>>

\* Group.getLocally up to populateCache: g.getter.Get(key).
getLocally(p, out) ==
    /\ ~panicked
    /\ gPc[p] = "local"
    /\ loadCounts' = [loadCounts EXCEPT ![gKey[p]] = @ + 1]
    /\ IF out.err # "nil"
       THEN /\ gRet' = [gRet EXCEPT ![p] = [value |-> <<>>, err |-> out.err]]
            /\ gLoc' = [gLoc EXCEPT ![p].load = "err"]
            /\ gPc' = [gPc EXCEPT ![p] = "returned"]
       ELSE /\ gLoc' = [gLoc EXCEPT ![p].load = "ok", ![p].bytes = out.bytes]
            /\ gPc' = [gPc EXCEPT ![p] = "populate"]
            /\ UNCHANGED gRet
    /\ UNCHANGED <<peers, mainCache, gKey, peerCounts, nGet, gEvicted, panicked, rArg, grFrame>>

\* value := ByteView{b: cloneBytes(bytes)}; g.populateCache(key, value);
\* return value, nil
populateCache(p) ==
    /\ ~panicked
    /\ gPc[p] = "populate"
    /\ LET value == cloneBytes(gLoc[p].bytes)
           after == add(mainCache, gKey[p], value)
       IN  /\ mainCache' = after
           /\ gEvicted' = gEvicted \cup ((Held(mainCache) \cup {gKey[p]}) \ Held(after))
           /\ gRet' = [gRet EXCEPT ![p] = [value |-> value, err |-> "nil"]]
    /\ gPc' = [gPc EXCEPT ![p] = "returned"]
    /\ UNCHANGED <<peers, gKey, gLoc, loadCounts, peerCounts, nGet, panicked, rArg, grFrame>>

\* Group.RegisterPeers, the test: panic if g.peers is set. The method
\* takes no lock, so the store below is a step of its own.
RegisterPeers(p, picker) ==
    /\ ~panicked
    /\ gPc[p] \in {"idle", "returned"}
    /\ IF peers # <<>>
       THEN panicked' = TRUE /\ UNCHANGED <<gPc, rArg>>
       ELSE /\ gPc' = [gPc EXCEPT ![p] = "register"]
            /\ rArg' = [rArg EXCEPT ![p] = <<picker, gPc[p]>>]
            /\ UNCHANGED panicked
    /\ UNCHANGED <<peers, mainCache, gKey, gLoc, gRet, loadCounts, peerCounts, nGet, gEvicted, grFrame>>

\* Group.RegisterPeers, the store: g.peers = peers
RegisterPeersStore(p) ==
    /\ ~panicked
    /\ gPc[p] = "register"
    /\ peers' = <<rArg[p][1]>>
    /\ gPc' = [gPc EXCEPT ![p] = rArg[p][2]]
    /\ rArg' = [rArg EXCEPT ![p] = <<>>]
    /\ UNCHANGED <<mainCache, gKey, gLoc, gRet, loadCounts, peerCounts, nGet, gEvicted, panicked, grFrame>>

GroupNext ==
    \/ \E p \in GProcs, key \in GKeys : Get(p, key)
    \/ \E p \in GProcs : load(p)
    \/ \E p \in GProcs, out \in PeerOuts : getFromPeer(p, out)
    \/ \E p \in GProcs, out \in LoadOuts : getLocally(p, out)
    \/ \E p \in GProcs : populateCache(p)
    \/ \E p \in GProcs, picker \in Pickers : RegisterPeers(p, picker)
    \/ \E p \in GProcs : RegisterPeersStore(p)

(***************************************************************************)
(* package consistenthash: Map                                             *)
(* Strings are sequences of decimal digit characters, <<2, 7>> for "27";   *)
(* <<>> is "".                                                             *)
(***************************************************************************)
NodeIds == {<<2>>, <<4>>, <<6>>}
RingKeys == {<<2>>, <<1, 1>>, <<2, 3>>, <<2, 7>>}
RingReplicas == {1, 3}
\* The argument lists handed to Add.
AddLists == {<<a>> : a \in NodeIds} \cup {<<a, b>> : a, b \in NodeIds}

\* strconv.Itoa of a natural number.
RECURSIVE Itoa(_)
Itoa(n) == IF n < 10 THEN <<n>> ELSE Itoa(n \div 10) \o <<n % 10>>

\* strconv.Atoi of a digit string.
RECURSIVE Atoi(_)
Atoi(str) ==
    IF str = <<>> THEN 0
    ELSE 10 * Atoi(SubSeq(str, 1, Len(str) - 1)) + str[Len(str)]

\* The Hash functions handed to New, each a func([]byte) uint32: "atoi"
\* is TestHashing's, "tens" drops the last digit, so that the virtual
\* nodes "0X", "0Y" of different nodes collide. The strings hashed have
\* at most three digits, so uint32 and int hold the values unchanged.
HashFns == {"atoi", "tens"}
Hash(fn, data) ==
    IF fn = "atoi" THEN Atoi(data) ELSE Atoi(data) \div 10

\* consistenthash.New
MapNew(replicas, fn) ==
    [hash |-> fn, replicas |-> replicas, keys |-> <<>>, hashMap |-> <<>>]

\* sort.Ints: the ascending arrangement of the slice.
SortInts(a) == SortSeq(a, LAMBDA x, y : x < y)

\* The inner loop of Add from i on: append the hash of Itoa(i) + key and
\* map it to key.
RECURSIVE AddReplicas(_, _, _)
AddReplicas(m, key, i) ==
    IF i >= m.replicas THEN m
    ELSE LET hash == Hash(m.hash, Itoa(i) \o key)
         IN  AddReplicas([m EXCEPT !.keys = Append(@, hash),
                                   !.hashMap = (hash :> key) @@ @],
                         key, i + 1)

\* The outer loop of Add.
RECURSIVE AddKeys(_, _)
AddKeys(m, keys) ==
    IF keys = <<>> THEN m
    ELSE AddKeys(AddReplicas(m, keys[1], 0), Tail(keys))

\* Add that leaves the new hashes where it appended them.
MapAdd_NoSort(m, keys) == AddKeys(m, keys)

\* Map.Add
MapAdd(m, keys) ==
    LET n == AddKeys(m, keys) IN [n EXCEPT !.keys = SortInts(@)]

\* sort.Search(n, f) with f(i) = m.keys[i] >= hash, on [i, j).
RECURSIVE Search(_, _, _, _)
Search(keys, hash, i, j) ==
    IF i >= j THEN i
    ELSE LET h == (i + j) \div 2
         IN  IF ~(keys[h + 1] >= hash)
             THEN Search(keys, hash, h + 1, j)
             ELSE Search(keys, hash, i, h)

\* Get that takes the last virtual node when the hash is past them all.
MapGet_NoWrap(m, key) ==
    IF Len(m.keys) = 0 THEN <<>>
    ELSE LET hash == Hash(m.hash, key)
             idx == Search(m.keys, hash, 0, Len(m.keys))
             realIdx == IF idx = Len(m.keys) THEN idx - 1 ELSE idx
         IN  m.hashMap[m.keys[realIdx + 1]]

\* Map.Get
MapGet(m, key) ==
    IF Len(m.keys) = 0 THEN <<>>
    ELSE LET hash == Hash(m.hash, key)
             idx == Search(m.keys, hash, 0, Len(m.keys))
             realIdx == idx % Len(m.keys)
         IN  m.hashMap[m.keys[realIdx + 1]]

RingInit ==
    /\ ring \in {MapNew(r, fn) : r \in RingReplicas, fn \in HashFns}
    /\ added = <<>>
    /\ ringLast = <<>>

\* No ring in use.
RingIdle ==
    /\ ring = MapNew(0, "atoi")
    /\ added = <<>>
    /\ ringLast = <<>>

\* m.Add(keys...)
CallMapAdd(keys) ==
    /\ Len(added) < MaxAdds
    /\ ring' = MapAdd(ring, keys)
    /\ added' = Append(added, keys)
    /\ ringLast' = <<>>
    /\ UNCHANGED ringFrame

\* m.Get(key)
CallMapGet(key) ==
    /\ ringLast' = <<key, MapGet(ring, key)>>
    /\ UNCHANGED <<ring, added, ringFrame>>

RingNext ==
    \/ \E keys \in AddLists : CallMapAdd(keys)
    \/ \E key \in RingKeys : CallMapGet(key)

(***************************************************************************)
(* package geecache: HTTPPool (Set, PickPeer)                              *)
(***************************************************************************)
defaultReplicas == 50
\* "/_geecache/"
defaultBasePath == <<47, 95, 103, 101, 101, 99, 97, 99, 104, 101, 47>>
\* The pool's ring is New(defaultReplicas, nil), hashed by
\* crc32.ChecksumIEEE; the pool uses it through Add and Get only, and
\* the ring here is hashed by TestHashing's function in its place.
defaultHash == "atoi"

PoolSetters == 1..NumSetters
\* PickPeer holds p.mu from entry to return, so its calls are serialised:
\* one calling goroutine shows all of them.
PoolPickers == {1}
\* The pool's own address, and the argument lists handed to Set.
PoolSelf == <<1>>
SetLists == {<<>>, <<(<<1>>), (<<2>>)>>, <<(<<2>>), (<<3>>)>>}
PoolKeys == {<<1>>, <<2>>}

\* A nil *httpGetter, and &httpGetter{baseURL: peer + p.basePath}.
NilGetter == <<>>
NewGetter(p, peer) == [baseURL |-> peer \o p.basePath]

\* NewHTTPPool
NewHTTPPool(self) ==
    [self |-> self, basePath |-> defaultBasePath, peers |-> <<>>, httpGetters |-> <<>>]

\* p.httpGetters[peer]: the zero value for a missing key or a nil map.
GetterOf(p, peer) ==
    IF p.httpGetters = <<>> THEN NilGetter
    ELSE IF peer \in DOMAIN p.httpGetters[1] THEN p.httpGetters[1][peer]
    ELSE NilGetter

NoPick == [key |-> <<>>, peer |-> <<>>, getter |-> NilGetter, ok |-> FALSE,
           called |-> FALSE, quiet |-> FALSE, after |-> <<>>]
SetterZero == [pc |-> "idle", ids |-> <<>>, i |-> 0]

PoolInit ==
    /\ pool = NewHTTPPool(PoolSelf)
    /\ setters = [s \in PoolSetters |-> SetterZero]
    /\ picks = [k \in PoolPickers |-> NoPick]
    /\ poolHist = [started |-> 0, done |-> 0, last |-> <<>>, overlap |-> FALSE]
    /\ poolPanic = FALSE

\* Set takes no lock: each statement is a step. The first:
\* p.peers = consistenthash.New(defaultReplicas, nil)
Set(s, ids) ==
    /\ ~poolPanic
    /\ setters[s].pc = "idle"
    /\ poolHist.started < MaxSet
    /\ pool' = [pool EXCEPT !.peers = <<MapNew(defaultReplicas, defaultHash)>>]
    /\ setters' = [setters EXCEPT ![s] = [pc |-> "add", ids |-> ids, i |-> 0]]
    /\ poolHist' = [poolHist EXCEPT !.started = @ + 1,
                                    !.overlap = \E t \in PoolSetters : setters[t].pc # "idle"]
    /\ UNCHANGED <<picks, poolPanic, poolFrame>>

\* p.peers.Add(peers...), on the ring p.peers points to now
SetAdd(s) ==
    /\ ~poolPanic
    /\ setters[s].pc = "add"
    /\ pool' = [pool EXCEPT !.peers = <<MapAdd(pool.peers[1], setters[s].ids)>>]
    /\ setters' = [setters EXCEPT ![s].pc = "make"]
    /\ UNCHANGED <<picks, poolHist, poolPanic, poolFrame>>

\* p.httpGetters = make(map[string]*httpGetter, len(peers))
SetMake(s) ==
    /\ ~poolPanic
    /\ setters[s].pc = "make"
    /\ pool' = [pool EXCEPT !.httpGetters = << <<>> >>]
    /\ setters' = [setters EXCEPT ![s].pc = "fill", ![s].i = 1]
    /\ UNCHANGED <<picks, poolHist, poolPanic, poolFrame>>

\* One round of the loop: p.httpGetters[peer] = &httpGetter{...}
SetFill(s) ==
    /\ ~poolPanic
    /\ setters[s].pc = "fill"
    /\ setters[s].i <= Len(setters[s].ids)
    /\ LET peer == setters[s].ids[setters[s].i]
       IN  pool' = [pool EXCEPT !.httpGetters =
                        <<(peer :> NewGetter(pool, peer)) @@ pool.httpGetters[1]>>]
    /\ setters' = [setters EXCEPT ![s].i = @ + 1]
    /\ UNCHANGED <<picks, poolHist, poolPanic, poolFrame>>

\* The loop is over: Set returns.
SetReturn(s) ==
    /\ ~poolPanic
    /\ setters[s].pc = "fill"
    /\ setters[s].i > Len(setters[s].ids)
    /\ setters' = [setters EXCEPT ![s] = SetterZero]
    /\ poolHist' = [poolHist EXCEPT !.done = @ + 1, !.last = setters[s].ids]
    /\ UNCHANGED <<pool, picks, poolPanic, poolFrame>>

\* What PickPeer returns on pool p: <<getter, ok>>.
PickOf(p, key) ==
    LET peer == MapGet(p.peers[1], key)
    IN  IF peer # <<>> /\ peer # p.self
        THEN <<GetterOf(p, peer), TRUE>>
        ELSE <<NilGetter, FALSE>>

\* PickPeer that returns a getter for whatever node the ring names.
PoolPickPeer_NoSelfCheck(k, key) ==
    /\ ~poolPanic
    /\ pool.peers # <<>>
    /\ LET peer == MapGet(pool.peers[1], key)
       IN  picks' = [picks EXCEPT ![k] =
                        [key |-> key, peer |-> peer,
                         getter |-> IF peer # <<>> THEN NewGetter(pool, peer) ELSE NilGetter,
                         ok |-> peer # <<>>, called |-> TRUE,
                         quiet |-> /\ \A s \in PoolSetters : setters[s].pc = "idle"
                                   /\ poolHist.done > 0 /\ ~poolHist.overlap,
                         after |-> poolHist.last]]
    /\ UNCHANGED <<pool, setters, poolHist, poolPanic, poolFrame>>

\* HTTPPool.PickPeer, all of it under p.mu (which Set does not take).
\* quiet: no Set is running, one has returned, and the Set calls since
\* the pool was last at rest did not overlap; after: the argument of the
\* last Set that returned.
PoolPickPeer(k, key) ==
    /\ ~poolPanic
    /\ IF pool.peers = <<>>
       THEN poolPanic' = TRUE /\ UNCHANGED picks
       ELSE /\ LET peer == MapGet(pool.peers[1], key)
                    ret == IF peer # <<>> /\ peer # pool.self
                           THEN <<GetterOf(pool, peer), TRUE>>
                           ELSE <<NilGetter, FALSE>>
                IN  picks' = [picks EXCEPT ![k] =
                            [key |-> key, peer |-> peer,
                             getter |-> ret[1], ok |-> ret[2],
                             called |-> TRUE,
                             quiet |-> /\ \A s \in PoolSetters : setters[s].pc = "idle"
                                       /\ poolHist.done > 0 /\ ~poolHist.overlap,
                             after |-> poolHist.last]]
            /\ UNCHANGED poolPanic
    /\ UNCHANGED <<pool, setters, poolHist, poolFrame>>

PoolNext ==
    \/ \E s \in PoolSetters, ids \in SetLists : Set(s, ids)
    \/ \E s \in PoolSetters : SetAdd(s)
    \/ \E s \in PoolSetters : SetMake(s)
    \/ \E s \in PoolSetters : SetFill(s)
    \/ \E s \in PoolSetters : SetReturn(s)
    \/ \E k \in PoolPickers, key \in PoolKeys : PoolPickPeer(k, key)

(***************************************************************************)
(* package geecache: the group registry (mu, groups, NewGroup, GetGroup)   *)
(***************************************************************************)
RegProcs == 1..NumRegProcs
GroupNames == {"scores", "scores111"}
\* The getter argument of NewGroup: nil, or a GetterFunc.
RegGetters == {"nil", "fn"}
\* A nil *Group.
NilGroup == <<>>
RegZero == [pc |-> "idle", name |-> "", g |-> NilGroup, ret |-> NilGroup]

\* The package variables: mu unlocked, groups = make(map[string]*Group).
RegInit ==
    /\ mu = [w |-> 0, r |-> {}]
    /\ groups = [n \in {} |-> NilGroup]
    /\ rg = [p \in RegProcs |-> RegZero]
    /\ newest = [n \in GroupNames |-> NilGroup]
    /\ nNew = 0
    /\ regPanic = FALSE

\* NewGroup up to mu.Lock(): panic("nil Getter") on a nil getter.
NewGroup(p, name, getter) ==
    /\ ~regPanic
    /\ rg[p].pc = "idle"
    /\ nNew < MaxNew
    /\ IF getter = "nil"
       THEN regPanic' = TRUE /\ UNCHANGED rg
       ELSE /\ rg' = [rg EXCEPT ![p].pc = "lock", ![p].name = name]
            /\ UNCHANGED regPanic
    /\ UNCHANGED <<mu, groups, newest, nNew, regFrame>>

\* mu.Lock(): waits until no goroutine holds mu either way.
NewGroupLock(p) ==
    /\ ~regPanic
    /\ rg[p].pc = "lock"
    /\ mu.w = 0 /\ mu.r = {}
    /\ mu' = [mu EXCEPT !.w = p]
    /\ rg' = [rg EXCEPT ![p].pc = "make"]
    /\ UNCHANGED <<groups, newest, nNew, regPanic, regFrame>>

\* g := &Group{name: name, ...}: id tells this Group from every other.
NewGroupMake(p) ==
    /\ ~regPanic
    /\ rg[p].pc = "make"
    /\ LET g == [name |-> rg[p].name, id |-> nNew + 1]
       IN  /\ rg' = [rg EXCEPT ![p].pc = "store", ![p].g = g]
           /\ newest' = [newest EXCEPT ![rg[p].name] = g]
    /\ nNew' = nNew + 1
    /\ UNCHANGED <<mu, groups, regPanic, regFrame>>

\* NewGroup that leaves a name already registered as it is.
NewGroupStore_KeepFirst(p) ==
    /\ ~regPanic
    /\ rg[p].pc = "store"
    /\ groups' = IF rg[p].name \in DOMAIN groups THEN groups
                 ELSE (rg[p].name :> rg[p].g) @@ groups
    /\ rg' = [rg EXCEPT ![p].pc = "unlock"]
    /\ UNCHANGED <<mu, newest, nNew, regPanic, regFrame>>

\* groups[name] = g
NewGroupStore(p) ==
    /\ ~regPanic
    /\ rg[p].pc = "store"
    /\ groups' = (rg[p].name :> rg[p].g) @@ groups
    /\ rg' = [rg EXCEPT ![p].pc = "unlock"]
    /\ UNCHANGED <<mu, newest, nNew, regPanic, regFrame>>

\* return g, and the deferred mu.Unlock()
NewGroupReturn(p) ==
    /\ ~regPanic
    /\ rg[p].pc = "unlock"
    /\ mu' = [mu EXCEPT !.w = 0]
    /\ rg' = [rg EXCEPT ![p].pc = "idle", ![p].ret = rg[p].g]
    /\ UNCHANGED <<groups, newest, nNew, regPanic, regFrame>>

\* GetGroup(name) is called.
GetGroup(p, name) ==
    /\ ~regPanic
    /\ rg[p].pc = "idle"
    /\ rg' = [rg EXCEPT ![p].pc = "rlock", ![p].name = name]
    /\ UNCHANGED <<mu, groups, newest, nNew, regPanic, regFrame>>

\* mu.RLock(): waits while a goroutine holds mu for writing.
GetGroupRLock(p) ==
    /\ ~regPanic
    /\ rg[p].pc = "rlock"
    /\ mu.w = 0
    /\ mu' = [mu EXCEPT !.r = @ \cup {p}]
    /\ rg' = [rg EXCEPT ![p].pc = "read"]
    /\ UNCHANGED <<groups, newest, nNew, regPanic, regFrame>>

\* g := groups[name]: nil for a name the map does not hold.
GetGroupRead(p) ==
    /\ ~regPanic
    /\ rg[p].pc = "read"
    /\ rg' = [rg EXCEPT ![p].pc = "runlock",
                        ![p].g = IF rg[p].name \in DOMAIN groups
                                 THEN groups[rg[p].name] ELSE NilGroup]
    /\ UNCHANGED <<mu, groups, newest, nNew, regPanic, regFrame>>

\* mu.RUnlock(); return g
GetGroupReturn(p) ==
    /\ ~regPanic
    /\ rg[p].pc = "runlock"
    /\ mu' = [mu EXCEPT !.r = @ \ {p}]
    /\ rg' = [rg EXCEPT ![p].pc = "idle", ![p].ret = rg[p].g]
    /\ UNCHANGED <<groups, newest, nNew, regPanic, regFrame>>

RegNext ==
    \/ \E p \in RegProcs, name \in GroupNames, getter \in RegGetters : NewGroup(p, name, getter)
    \/ \E p \in RegProcs : NewGroupLock(p)
    \/ \E p \in RegProcs : NewGroupMake(p)
    \/ \E p \in RegProcs : NewGroupStore(p)
    \/ \E p \in RegProcs : NewGroupReturn(p)
    \/ \E p \in RegProcs, name \in GroupNames : GetGroup(p, name)
    \/ \E p \in RegProcs : GetGroupRLock(p)
    \/ \E p \in RegProcs : GetGroupRead(p)
    \/ \E p \in RegProcs : GetGroupReturn(p)

(***************************************************************************)
(* package geecache: ByteView over shared memory                           *)
(***************************************************************************)
\* A []byte is the address of its backing array; heap[a] is the array at a
\* and make() takes the next address.  ext holds the addresses that code
\* outside the package has a slice of.
ViewBytes == {<<>>, <<7>>, <<7, 8>>}
WriteVals == {0}

\* make([]byte, len(b)) and copy: the heap with one more array.
Alloc(h, b) == Append(h, cloneBytes(b))

\* v.Len(), v.String(), and the bytes of the slice v.ByteSlice() returns
ByteViewLen(h, v) == Len(h[v.b])
ByteViewString(h, v) == h[v.b]
ByteSlice(h, v) == cloneBytes(h[v.b])

ViewInit ==
    /\ heap = <<>>
    /\ views = <<>>
    /\ ext = {}
    /\ bvRead = <<>>

\* getLocally: the getter hands over bytes it made (the caller keeps its
\* slice); value := ByteView{b: cloneBytes(bytes)} is cached and returned.
ViewGetLocally(bytes) ==
    /\ Len(heap) + 2 <= MaxHeap
    /\ heap' = Alloc(Alloc(heap, bytes), bytes)
    /\ ext' = ext \cup {Len(heap) + 1}
    /\ views' = Append(views, [b |-> Len(heap) + 2, orig |-> bytes, from |-> "getter"])
    /\ UNCHANGED <<bvRead, viewFrame>>

\* getFromPeer: the PeerGetter hands over bytes it made (and keeps its
\* slice); ByteView{b: bytes} is returned.
ViewGetFromPeer(bytes) ==
    /\ Len(heap) + 1 <= MaxHeap
    /\ heap' = Alloc(heap, bytes)
    /\ ext' = ext \cup {Len(heap) + 1}
    /\ views' = Append(views, [b |-> Len(heap) + 1, orig |-> bytes, from |-> "peer"])
    /\ UNCHANGED <<bvRead, viewFrame>>

\* s := v.ByteSlice(): the caller gets the clone.
ViewByteSlice(i) ==
    /\ i \in DOMAIN views
    /\ Len(heap) + 1 <= MaxHeap
    /\ heap' = Append(heap, ByteSlice(heap, views[i]))
    /\ ext' = ext \cup {Len(heap) + 1}
    /\ bvRead' = [view |-> i, op |-> "ByteSlice", out |-> ByteSlice(heap, views[i])]
    /\ UNCHANGED <<views, viewFrame>>

\* v.Len()
ViewLen(i) ==
    /\ i \in DOMAIN views
    /\ bvRead' = [view |-> i, op |-> "Len", out |-> ByteViewLen(heap, views[i])]
    /\ UNCHANGED <<heap, views, ext, viewFrame>>

\* v.String()
ViewString(i) ==
    /\ i \in DOMAIN views
    /\ bvRead' = [view |-> i, op |-> "String", out |-> ByteViewString(heap, views[i])]
    /\ UNCHANGED <<heap, views, ext, viewFrame>>

\* Code outside the package writes s[j] = c through a slice it holds.
WriteByte(a, j, c) ==
    /\ a \in ext
    /\ j \in DOMAIN heap[a]
    /\ heap' = [heap EXCEPT ![a][j] = c]
    /\ UNCHANGED <<views, ext, bvRead, viewFrame>>

ViewNext ==
    \/ \E bytes \in ViewBytes : ViewGetLocally(bytes)
    \/ \E bytes \in ViewBytes : ViewGetFromPeer(bytes)
    \/ \E i \in 1..MaxHeap : ViewByteSlice(i)
    \/ \E i \in 1..MaxHeap : ViewLen(i)
    \/ \E i \in 1..MaxHeap : ViewString(i)
    \/ \E a \in 1..MaxHeap, j \in 1..2, c \in WriteVals : WriteByte(a, j, c)

(***************************************************************************)
(* package geecache: the cache shell under concurrent add and get          *)
(***************************************************************************)
\* add and get above are the two methods as one step each, which is what
\* c.mu makes of them for their callers.  Here they are taken statement by
\* statement, goroutines interleaving wherever c.mu lets them.
ShellProcs == 1..NumShellProcs
ShellKeys == {"a", "bb"}
ShellVals == {<<120>>, <<121, 121>>}
ShellCaps == {0, 4}
ShellZero == [pc |-> "idle", op |-> "none", key |-> "", value |-> <<>>,
              ret |-> [value |-> <<>>, ok |-> FALSE], nilSeen |-> FALSE]

\* A cache{cacheBytes: n}: mu unlocked, lru nil.
ShellInit ==
    /\ shell \in {[mu |-> 0, lru |-> <<>>, cacheBytes |-> n] : n \in ShellCaps}
    /\ shProc = [p \in ShellProcs |-> ShellZero]
    /\ built = 0
    /\ shAdded = {}
    /\ nShell = 0

ShellIdle ==
    /\ shell = [mu |-> 0, lru |-> <<>>, cacheBytes |-> 0]
    /\ shProc = [p \in ShellProcs |-> ShellZero]
    /\ built = 0
    /\ shAdded = {}
    /\ nShell = 0

\* c.add(key, value) is called.
ShellAdd(p, key, value) ==
    /\ shProc[p].pc = "idle"
    /\ nShell < MaxShellOps
    /\ nShell' = nShell + 1
    /\ shProc' = [shProc EXCEPT ![p] = [ShellZero EXCEPT !.pc = "lock", !.op = "add",
                                                         !.key = key, !.value = value]]
    /\ UNCHANGED <<shell, built, shAdded, shellFrame>>

\* c.get(key) is called.
ShellGet(p, key) ==
    /\ shProc[p].pc = "idle"
    /\ nShell < MaxShellOps
    /\ nShell' = nShell + 1
    /\ shProc' = [shProc EXCEPT ![p] = [ShellZero EXCEPT !.pc = "lock", !.op = "get",
                                                         !.key = key]]
    /\ UNCHANGED <<shell, built, shAdded, shellFrame>>

\* add and get going on without waiting for c.mu.
ShellLock_NoWait(p) ==
    /\ shProc[p].pc = "lock"
    /\ shell' = [shell EXCEPT !.mu = p]
    /\ shProc' = [shProc EXCEPT ![p].pc = "check"]
    /\ UNCHANGED <<built, shAdded, nShell, shellFrame>>

\* c.mu.Lock()
ShellLock(p) ==
    /\ shProc[p].pc = "lock"
    /\ shell.mu = 0
    /\ shell' = [shell EXCEPT !.mu = p]
    /\ shProc' = [shProc EXCEPT ![p].pc = "check"]
    /\ UNCHANGED <<built, shAdded, nShell, shellFrame>>

\* if c.lru == nil, in add and in get: get returns (zero, false) on nil.
ShellCheck(p) ==
    /\ shProc[p].pc = "check"
    /\ shProc' = [shProc EXCEPT
                    ![p].nilSeen = shell.lru = <<>>,
                    ![p].pc = IF shell.lru = <<>>
                              THEN (IF shProc[p].op = "add" THEN "new" ELSE "unlock")
                              ELSE "call"]
    /\ UNCHANGED <<shell, built, shAdded, nShell, shellFrame>>

\* c.lru = lru.New(c.cacheBytes, nil)
ShellNew(p) ==
    /\ shProc[p].pc = "new"
    /\ shell' = [shell EXCEPT !.lru = <<New(shell.cacheBytes, FALSE)>>]
    /\ built' = built + 1
    /\ shProc' = [shProc EXCEPT ![p].pc = "call"]
    /\ UNCHANGED <<shAdded, nShell, shellFrame>>

\* c.lru.Add(key, value) in add; c.lru.Get(key) in get
ShellCall(p) ==
    /\ shProc[p].pc = "call"
    /\ IF shProc[p].op = "add"
       THEN /\ shell' = [shell EXCEPT !.lru = <<Add(shell.lru[1], shProc[p].key, shProc[p].value)>>]
            /\ shAdded' = shAdded \cup {shProc[p].key}
            /\ shProc' = [shProc EXCEPT ![p].pc = "unlock"]
       ELSE /\ shell' = [shell EXCEPT !.lru = <<GetCache(shell.lru[1], shProc[p].key)>>]
            /\ shProc' = [shProc EXCEPT
                            ![p].pc = "unlock",
                            ![p].ret = [value |-> IF GetOk(shell.lru[1], shProc[p].key)
                                                  THEN GetValue(shell.lru[1], shProc[p].key)[1]
                                                  ELSE <<>>,
                                        ok |-> GetOk(shell.lru[1], shProc[p].key)]]
            /\ UNCHANGED shAdded
    /\ UNCHANGED <<built, nShell, shellFrame>>

\* The deferred c.mu.Unlock(), and the return.
ShellUnlock(p) ==
    /\ shProc[p].pc = "unlock"
    /\ shell' = [shell EXCEPT !.mu = 0]
    /\ shProc' = [shProc EXCEPT ![p].pc = "idle"]
    /\ UNCHANGED <<built, shAdded, nShell, shellFrame>>

ShellNext ==
    \/ \E p \in ShellProcs, key \in ShellKeys, value \in ShellVals : ShellAdd(p, key, value)
    \/ \E p \in ShellProcs, key \in ShellKeys : ShellGet(p, key)
    \/ \E p \in ShellProcs : ShellLock(p)
    \/ \E p \in ShellProcs : ShellCheck(p)
    \/ \E p \in ShellProcs : ShellNew(p)
    \/ \E p \in ShellProcs : ShellCall(p)
    \/ \E p \in ShellProcs : ShellUnlock(p)

(***************************************************************************)
(* The specifications                                                      *)
(***************************************************************************)
LruSpecInit == LruInit /\ SfInit /\ GroupInit /\ mainCache.cacheBytes = 0 /\ RingIdle /\ PoolInit /\ RegInit /\ ViewInit /\ ShellIdle
LruSpec == LruSpecInit /\ [][LruNext]_vars

SfSpecInit == LruIdle /\ SfInit /\ GroupInit /\ mainCache.cacheBytes = 0 /\ RingIdle /\ PoolInit /\ RegInit /\ ViewInit /\ ShellIdle
SfSpec == SfSpecInit /\ [][SfNext]_vars

\* SfSpec with the scheduler's fairness: a goroutine that stays able to
\* take a step of Do, other than entering it or running fn, takes one.
\* fn itself may run for ever, or panic.
DoStep(p) ==
    \/ DoLock(p) \/ DoLookup(p) \/ DoWait(p) \/ DoStore(p)
    \/ DoDone(p) \/ DoRelock(p) \/ DoDelete(p) \/ DoReturn(p)
SfFair == \A p \in SfProcs : WF_vars(DoStep(p))
SfLiveSpec == SfSpecInit /\ [][SfNext]_vars /\ SfFair

GroupSpecInit == LruIdle /\ SfInit /\ GroupInit /\ RingIdle /\ PoolInit /\ RegInit /\ ViewInit /\ ShellIdle
GroupSpec == GroupSpecInit /\ [][GroupNext]_vars

RingSpecInit == LruIdle /\ SfInit /\ GroupInit /\ mainCache.cacheBytes = 0 /\ RingInit /\ PoolInit /\ RegInit /\ ViewInit /\ ShellIdle
RingSpec == RingSpecInit /\ [][RingNext]_vars

PoolSpecInit == LruIdle /\ SfInit /\ GroupInit /\ mainCache.cacheBytes = 0 /\ RingIdle /\ PoolInit /\ RegInit /\ ViewInit /\ ShellIdle
PoolSpec == PoolSpecInit /\ [][PoolNext]_vars

RegSpecInit == LruIdle /\ SfInit /\ GroupInit /\ mainCache.cacheBytes = 0 /\ RingIdle /\ PoolInit /\ RegInit /\ ViewInit /\ ShellIdle
RegSpec == RegSpecInit /\ [][RegNext]_vars

ViewSpecInit == LruIdle /\ SfInit /\ GroupInit /\ mainCache.cacheBytes = 0 /\ RingIdle /\ PoolInit /\ RegInit /\ ViewInit /\ ShellIdle
ViewSpec == ViewSpecInit /\ [][ViewNext]_vars

ShellSpecInit == LruIdle /\ SfInit /\ GroupInit /\ mainCache.cacheBytes = 0 /\ RingIdle /\ PoolInit /\ RegInit /\ ViewInit /\ ShellInit
ShellSpec == ShellSpecInit /\ [][ShellNext]_vars

(***************************************************************************)
(* Claims on single-flight (SfSpec)                                        *)
(***************************************************************************)
\* p is inside Do / has evaluated fn in this call / is between the insert
\* of its call and its delete.
SfInDo(p) == sfPc[p] # "idle"
SfInvoked(p) == sfPc[p] \in {"store", "done", "relock", "delete", "return"}
SfExecuting(p) == sfPc[p] \in {"fn", "store", "done", "relock", "delete"}
\* p is past the latch of its call record.
SfPastLatch(p) == sfC[p] # 0 /\ sfPc[p] \in {"store", "done", "relock", "delete", "return", "idle"}

C2_SharedResult ==
    \A p \in SfProcs :
        (sfPc[p] = "idle" /\ sfC[p] # 0)
            => /\ Len(fnLog[sfC[p]]) = 1
               /\ sfRet[p] = fnLog[sfC[p]][1]

\* A waiter and the executing caller have both returned an error pair.
C2_Witness ==
    \E p, q \in SfProcs :
        /\ p # q /\ sfPc[p] = "idle" /\ sfPc[q] = "idle"
        /\ sfC[p] # 0 /\ sfC[p] = sfC[q]
        /\ sfRet[p].err = "e1" /\ sfRet[q] = sfRet[p]

\* C21: when fn has panicked inside Do, the latch of the caller's call
\* record is open and the record is out of the map.
C21_PanicReleases ==
    \A p \in SfProcs :
        sfPc[p] = "panicked"
            => /\ sfCalls[sfC[p]].wg = 0
               /\ \A k \in DOMAIN sfM : sfM[k] # sfC[p]

\* Record r is in the map / has had its fn return.
SfInMap(r) == \E k \in DOMAIN sfM : sfM[k] = r
SfReturned(r) == r \in 1..Len(sfCalls) /\ Len(fnLog[r]) = 1

\* C22: once fn has returned for a call record, a time comes when every
\* caller that joined the record has returned from Do and the record is
\* out of the map; a Do that takes the lock when its key has no record
\* in the map makes a new record and goes on to evaluate fn for it.
C22_Drain ==
    /\ \A r \in 1..(MaxDo + 1) :
          SfReturned(r) ~> (/\ ~SfInMap(r)
                            /\ \A p \in SfProcs : sfC[p] = r => sfPc[p] = "idle")
    /\ [][\A p \in SfProcs :
            (sfPc[p] = "locked" /\ sfPc'[p] # "locked" /\ sfKey[p] \notin DOMAIN sfM)
                => /\ sfPc'[p] = "fn"
                   /\ sfC'[p] = Len(sfCalls) + 1
                   /\ Len(sfCalls') = Len(sfCalls) + 1
                   /\ fnLog'[sfC'[p]] = <<>>]_vars

\* Two callers have returned from Do on one key, each from a record of
\* its own whose fn was evaluated: two generations.
C22_Witness ==
    \E p, q \in SfProcs :
        /\ p # q /\ sfKey[p] = sfKey[q]
        /\ sfPc[p] = "idle" /\ sfPc[q] = "idle"
        /\ sfC[p] # 0 /\ sfC[q] # 0 /\ sfC[p] # sfC[q]
        /\ Len(fnLog[sfC[p]]) = 1 /\ Len(fnLog[sfC[q]]) = 1
        /\ sfM = NoElems

\* C23: a caller running fn, storing its result, or waiting on a latch
\* does not hold g.mu.
C23_GuardNotHeld ==
    \A p \in SfProcs :
        sfPc[p] \in {"fn", "store", "done", "wait", "panicked"} => sfMu # p

\* While a caller is still running fn for "k1", a caller whose record for
\* "k2" was made later has evaluated its fn and returned.
C23_Witness ==
    \E p, q \in SfProcs :
        /\ sfPc[p] = "fn" /\ sfKey[p] = "k1"
        /\ sfPc[q] = "idle" /\ sfKey[q] = "k2"
        /\ sfC[q] > sfC[p]
        /\ Len(fnLog[sfC[q]]) = 1 /\ sfRet[q] = fnLog[sfC[q]][1]

\* C30: from its insert to its delete a caller's record is the one the
\* map holds for its key, so no other caller inserts one for the key in
\* between, the delete removes the caller's own record, and the records
\* in the map belong to different keys.
C30_RecordOwnership ==
    /\ \A p \in SfProcs :
          SfExecuting(p) => /\ sfKey[p] \in DOMAIN sfM
                            /\ sfM[sfKey[p]] = sfC[p]
    /\ \A k1, k2 \in DOMAIN sfM : sfM[k1] = sfM[k2] => k1 = k2
    /\ \A r \in 1..Len(sfCalls) :
          Cardinality({p \in SfProcs : SfExecuting(p) /\ sfC[p] = r}) <= 1

\* A caller is about to delete its record while another caller, who
\* inserted a record for the other key, is running fn.
C30_Witness ==
    \E p, q \in SfProcs :
        /\ sfPc[p] = "delete" /\ sfM[sfKey[p]] = sfC[p]
        /\ sfPc[q] = "fn" /\ sfKey[q] # sfKey[p]
        /\ Cardinality(DOMAIN sfM) = 2

(***************************************************************************)
(* Claims on the LRU engine (LruSpec)                                      *)
(***************************************************************************)
\* len(key) + value.Len() summed over the entries of the list.
RECURSIVE SumBytes(_, _)
SumBytes(c, i) ==
    IF i = 0 THEN 0
    ELSE Len(c.elems[c.ll[i]].key) + Len(c.elems[c.ll[i]].value) + SumBytes(c, i - 1)

\* The value the engine holds for a resident key.
ValueOf(c, key) == c.elems[c.cache[key]].value

\* C4: with maxBytes > 0, whenever a public call has returned,
\* nbytes <= maxBytes.
C4_Capacity ==
    (lru.maxBytes > 0 /\ ~lru.spin) => lru.nbytes <= lru.maxBytes

\* Add of a single entry larger than maxBytes has returned.
C4_Witness ==
    /\ lru.maxBytes > 0
    /\ lastOp.op = "Add"
    /\ Len(lastOp.key) + Len(lastOp.value[1]) > lru.maxBytes
    /\ ~lru.spin

\* C5: nbytes is the sum of len(key) + value.Len() over the resident
\* entries, and 0 when the engine is empty.
C5_Accounting ==
    /\ lru.nbytes = SumBytes(lru, Len(lru.ll))
    /\ lru.ll = <<>> => lru.nbytes = 0

\* Add has updated a resident key while another entry is resident.
C5_Witness ==
    /\ lastOp.op = "Add" /\ lastOp.had
    /\ Len(lru.ll) >= 2
    /\ lru.nbytes > 0

\* The steps of C6.  strict: Add leaves its key at the head in every case.
C6_Step(strict) ==
    /\ (lastOp'.op = "Add" /\ ~lru'.spin) =>
          \/ lru'.ll # <<>> /\ KeysOf(lru')[1] = lastOp'.key
          \/ /\ ~strict
             /\ lru'.ll = <<>>
             /\ lru.maxBytes > 0
             /\ Len(lastOp'.key) + Len(lastOp'.value[1]) > lru.maxBytes
    /\ (lastOp'.op = "Get" /\ lastOp'.ok) =>
          lru'.ll # <<>> /\ KeysOf(lru')[1] = lastOp'.key
    /\ (lastOp'.op = "RemoveOldest" /\ lru.ll # <<>>) =>
          /\ KeysOf(lru') = SubSeq(KeysOf(lru), 1, Len(lru.ll) - 1)
          /\ Resident(lru') = Resident(lru) \ {KeysOf(lru)[Len(lru.ll)]}
          /\ \A k \in Resident(lru') : ValueOf(lru', k) = ValueOf(lru, k)

\* C6 as stated: after Add(k, v) returns, and after Get(k) returns found,
\* k is the head of the list; RemoveOldest on a non-empty engine removes
\* the tail entry and no other.
C6_HeadAfterAdd == [][C6_Step(TRUE)]_vars

\* C6 as amended: after Add(k, v) returns k is the head of the list, unless
\* len(k) + v.Len() > maxBytes > 0, when Add has evicted k itself and the
\* engine is empty; after Get(k) returns found k is the head; RemoveOldest
\* on a non-empty engine removes the tail entry and no other.
C6_HeadUnlessSelfEvicted == [][C6_Step(FALSE)]_vars

\* Add has moved a resident key to the head, past another entry.
C6_Witness ==
    /\ lastOp.op = "Add" /\ lastOp.had
    /\ Len(lru.ll) >= 2
    /\ KeysOf(lru)[1] = lastOp.key
    /\ lru.maxBytes > 0

\* C7: with a callback, each step hands the callback exactly the entries
\* that left the engine, once each, after what it was handed before, in
\* the order least recently used first (use being Add or a Get that
\* found the key).
C7_Step ==
    lru.OnEvicted =>
        LET n == Len(lru.evlog)
            new == SubSeq(lru'.evlog, n + 1, Len(lru'.evlog))
            live == Resident(lru) \cup (IF lastOp'.op = "Add" THEN {lastOp'.key} ELSE {})
            order == SelectSeq(touched', LAMBDA k : k \in live)
            gone == live \ Resident(lru')
        IN  /\ Len(lru'.evlog) >= n
            /\ SubSeq(lru'.evlog, 1, n) = lru.evlog
            /\ Len(new) = Cardinality(gone)
            /\ \A i \in 1..Len(new) :
                  /\ new[i].key = order[Len(order) + 1 - i]
                  /\ new[i].value = IF lastOp'.op = "Add" /\ new[i].key = lastOp'.key
                                    THEN lastOp'.value[1]
                                    ELSE ValueOf(lru, new[i].key)
C7_EvictionOrder == [][C7_Step]_vars

\* The callback has been handed two entries, the later by an Add of a
\* new key that stayed resident.
C7_Witness ==
    /\ lru.OnEvicted
    /\ Len(lru.evlog) >= 2
    /\ lastOp.op = "Add" /\ ~lastOp.had
    /\ lastOp.key \in Resident(lru)
    /\ lru.evlog[Len(lru.evlog)].key # lastOp.key

\* C24: the map and the list hold the same keys, each key once in the
\* list, the map takes each key to the list element holding that key, and
\* Len() is the number of keys in the map.
C24_Structure ==
    LET keys == KeysOf(lru)
    IN  /\ DOMAIN lru.cache = {keys[i] : i \in DOMAIN keys}
        /\ \A i, j \in DOMAIN keys : keys[i] = keys[j] => i = j
        /\ \A k \in DOMAIN lru.cache :
              /\ \E i \in DOMAIN lru.ll : lru.ll[i] = lru.cache[k]
              /\ lru.elems[lru.cache[k]].key = k
        /\ LruLen(lru) = Cardinality(DOMAIN lru.cache)

\* Three keys were added and RemoveOldest has taken one out, leaving two.
C24_Witness ==
    /\ lastOp.op = "RemoveOldest" /\ lastOp.ok
    /\ LruLen(lru) = 2
    /\ Len(touched) = 3

\* What a step has handed the callback.
NewlyEvicted == SubSeq(lru'.evlog, Len(lru.evlog) + 1, Len(lru'.evlog))

\* C25: when Add(k, v) has returned and k is not resident, maxBytes > 0,
\* the engine is empty with nbytes 0, and k was the last entry evicted,
\* after every entry resident before; otherwise k is resident with v.
C25_Step ==
    (lastOp'.op = "Add" /\ ~lru'.spin)
        => LET k == lastOp'.key
               v == lastOp'.value[1]
           IN  IF k \notin Resident(lru')
               THEN /\ lru.maxBytes > 0
                    /\ lru'.ll = <<>> /\ Resident(lru') = {} /\ lru'.nbytes = 0
                    /\ lru.OnEvicted
                          => /\ Len(NewlyEvicted) = Cardinality(Resident(lru) \cup {k})
                             /\ NewlyEvicted[Len(NewlyEvicted)].key = k
                             /\ \A i \in 1..(Len(NewlyEvicted) - 1) :
                                   NewlyEvicted[i].key \in Resident(lru) \ {k}
               ELSE ValueOf(lru', k) = v
C25_SelfEvictionLast == [][C25_Step]_vars

\* An Add has evicted another entry and then its own key.
C25_Witness ==
    /\ lastOp.op = "Add" /\ ~lastOp.had
    /\ lru.maxBytes > 0 /\ lru.OnEvicted
    /\ lru.ll = <<>>
    /\ Len(lru.evlog) = 2
    /\ lru.evlog[2].key = lastOp.key /\ lru.evlog[1].key # lastOp.key

\* C26: with maxBytes 0, Add and Get evict nothing and call no callback:
\* the resident keys stay, with their values, Add's key joining them with
\* Add's value.
C26_Step ==
    (lru.maxBytes = 0 /\ lastOp'.op \in {"Add", "Get"})
        => /\ lru'.evlog = lru.evlog
           /\ Resident(lru') = Resident(lru)
                                  \cup (IF lastOp'.op = "Add" THEN {lastOp'.key} ELSE {})
           /\ \A k \in Resident(lru') :
                 ValueOf(lru', k) = IF lastOp'.op = "Add" /\ k = lastOp'.key
                                    THEN lastOp'.value[1]
                                    ELSE ValueOf(lru, k)
C26_ZeroNeverEvicts == [][C26_Step]_vars

\* An engine with maxBytes 0 and a callback holds three entries of more
\* bytes than any capacity tried, and has evicted nothing.
C26_Witness ==
    /\ lru.maxBytes = 0 /\ lru.OnEvicted
    /\ LruLen(lru) = 3 /\ lru.nbytes > 5
    /\ lastOp.op = "Add" /\ lastOp.had
    /\ lru.evlog = <<>>

\* C27: every call of the callback found its key gone from the map and
\* the list and nbytes already less by the entry's size; RemoveOldest on
\* an empty engine changes nothing and calls no callback.
C27_Step ==
    /\ \A i \in DOMAIN lru'.evlog :
          lru'.evlog[i].absent /\ lru'.evlog[i].reduced
    /\ (lastOp'.op = "RemoveOldest" /\ lru.ll = <<>>) => lru' = lru
C27_CallbackAfterUpdate == [][C27_Step]_vars

\* RemoveOldest has handed the callback an entry while another stays.
C27_Witness ==
    /\ lru.OnEvicted
    /\ lastOp.op = "RemoveOldest" /\ lastOp.ok
    /\ Len(lru.evlog) = 1
    /\ lru.ll # <<>>

\* C29: no call of Add is left in its eviction loop for ever.
C29_AddReturns == ~lru.spin

(***************************************************************************)
(* Claims on the Group (GroupSpec)                                         *)
(***************************************************************************)
\* p is executing g.load(key).
InLoad(p) == gPc[p] \in {"load", "peer", "local", "populate"}

\* C3: the Get calls on one key that miss the cache run one load between
\* them: no two goroutines execute load for the same key at once.
C3_OneLoadInFlight ==
    \A p, q \in GProcs :
        (p # q /\ gKey[p] = gKey[q] /\ InLoad(p)) => ~InLoad(q)

C9_Step ==
    \A p \in GProcs :
        /\ (gPc[p] = "load" /\ gPc'[p] # "load" /\ peers # <<>> /\ gKey[p] \in peers[1])
            => gPc'[p] = "peer" /\ loadCounts' = loadCounts
        /\ (gPc[p] = "peer" /\ gPc'[p] = "returned")
            => /\ gLoc'[p].peer = "ok" /\ gLoc'[p].load = "none"
               /\ gLoc'[p].bytes \in {o.bytes : o \in {x \in PeerOuts : x.err = "nil"}}
               /\ gRet'[p] = [value |-> gLoc'[p].bytes, err |-> "nil"]
               /\ loadCounts' = loadCounts
               /\ mainCache' = mainCache
               /\ gKey[p] \notin Held(mainCache) => gKey[p] \notin Held(mainCache')
               /\ peerCounts'[gKey[p]] = peerCounts[gKey[p]] + 1
C10_Step ==
    \A p \in GProcs :
        /\ (gPc[p] = "peer" /\ gLoc'[p].peer = "err")
              => gPc'[p] = "local" /\ mainCache' = mainCache
        /\ (gLoc[p].peer = "err" /\ gPc[p] = "local" /\ gPc'[p] # "local")
              => /\ loadCounts'[gKey[p]] = loadCounts[gKey[p]] + 1
                 /\ gPc'[p] \in {"returned", "populate"}
                 /\ gPc'[p] = "returned"
                       => /\ gLoc'[p].load = "err"
                          /\ gRet'[p] = [value |-> <<>>, err |-> "loadErr"]
                          /\ mainCache' = mainCache
                 /\ gPc'[p] = "populate"
                       => gLoc'[p].load = "ok" /\ gLoc'[p].bytes \in GBytes
        /\ (gLoc[p].peer = "err" /\ gPc[p] = "populate" /\ gPc'[p] # "populate")
              => /\ gPc'[p] = "returned"
                 /\ gRet'[p] = [value |-> gLoc[p].bytes, err |-> "nil"]
                 /\ mainCache' = add(mainCache, gKey[p], gLoc[p].bytes)
                 /\ \/ /\ gKey[p] \in Held(mainCache')
                       /\ HeldValue(mainCache', gKey[p]) = gLoc[p].bytes
                    \/ /\ mainCache.cacheBytes > 0
                       /\ Len(gKey[p]) + Len(gLoc[p].bytes) > mainCache.cacheBytes
C10_PeerFailureFallsBack == [][C10_Step]_vars

\* After a peer failure Get has returned the loader's bytes, now held.
C10_Witness ==
    \E p \in GProcs :
        /\ gPc[p] = "returned"
        /\ gLoc[p].peer = "err" /\ gLoc[p].load = "ok"
        /\ gRet[p] = [value |-> gLoc[p].bytes, err |-> "nil"]
        /\ gKey[p] \in Held(mainCache)
        /\ HeldValue(mainCache, gKey[p]) = gLoc[p].bytes

\* The step is a call of Group.Get, and p's: a step changes one
\* goroutine only. (A call that repeats p's last one with the same
\* outcome changes nothing of p and is not told apart.)
CallsGet(p) ==
    /\ nGet' = nGet + 1
    /\ <<gPc'[p], gKey'[p], gLoc'[p], gRet'[p]>> # <<gPc[p], gKey[p], gLoc[p], gRet[p]>>

\* C11: the step in which the loader fails returns the loader's error and
\* leaves mainCache as it was; the same goroutine's next Get of that key,
\* the key still not held, is not answered from the cache but goes on to
\* load, and every getLocally invokes the loader once more.
C11_Step ==
    \A p \in GProcs :
        /\ (gPc[p] = "local" /\ gPc'[p] = "returned")
              => /\ gLoc'[p].load = "err"
                 /\ gRet'[p] = [value |-> <<>>, err |-> "loadErr"]
                 /\ mainCache' = mainCache
                 /\ gEvicted' = gEvicted
        /\ (gPc[p] = "local" /\ gPc'[p] # "local")
              => loadCounts'[gKey[p]] = loadCounts[gKey[p]] + 1
        /\ (gPc[p] = "returned" /\ gLoc[p].load = "err" /\ CallsGet(p)
               /\ gKey'[p] = gKey[p] /\ gKey[p] \notin Held(mainCache))
              => gPc'[p] = "load" /\ ~gLoc'[p].hit
        /\ (gPc[p] = "load" /\ gPc'[p] # "load"
               /\ ~(peers # <<>> /\ gKey[p] \in peers[1]))
              => gPc'[p] = "local"
C11_LoaderErrorNotCached == [][C11_Step]_vars

\* One goroutine alone has called Get twice for a key, the loader failed
\* both times, and the key is not held.
C11_Witness ==
    /\ gPc[1] = "returned" /\ gLoc[1].load = "err" /\ nGet = 2
    /\ gRet[1].err = "loadErr"
    /\ gPc[2] = "idle"
    /\ loadCounts[gKey[1]] = 2
    /\ gKey[1] \notin Held(mainCache)

\* C12: the call of Get with the empty key returns "key is required" at
\* once: no cache lookup (mainCache, recency included, is as it was), no
\* peer picked, no loader or peer getter invoked, then or later.
C12_Step ==
    \A p \in GProcs :
        /\ (gPc'[p] \notin {"idle", "register"} /\ gKey'[p] = "")
            => /\ gPc'[p] = "returned"
               /\ gRet'[p] = [value |-> <<>>, err |-> "key is required"]
               /\ gLoc'[p] = GLocZero
               /\ loadCounts'[""] = 0 /\ peerCounts'[""] = 0
        /\ (CallsGet(p) /\ gKey'[p] = "")
            => /\ gPc'[p] = "returned"
               /\ gRet'[p] = [value |-> <<>>, err |-> "key is required"]
               /\ ~gLoc'[p].hit /\ ~gLoc'[p].picked
               /\ gLoc'[p].peer = "none" /\ gLoc'[p].load = "none"
               /\ mainCache' = mainCache
               /\ loadCounts' = loadCounts /\ peerCounts' = peerCounts
C12_EmptyKeyRefused == [][C12_Step]_vars

\* Get("") has returned its error on a group whose cache holds a key.
C12_Witness ==
    \E p \in GProcs :
        /\ gPc[p] = "returned" /\ gKey[p] = ""
        /\ gRet[p].err = "key is required"
        /\ Held(mainCache) # {}
        /\ loadCounts[""] = 0 /\ peerCounts[""] = 0

\* C13: once g.peers is set it is never set again: the picker load
\* consults stays the one of the first RegisterPeers.
C13_NeverReplaced == [][peers # <<>> => peers' = peers]_vars

(***************************************************************************)
(* Claims on the hash ring (RingSpec)                                      *)
(***************************************************************************)
\* The virtual-node hashes on the ring, and the least of a set of them.
RingHashes(m) == {m.keys[i] : i \in DOMAIN m.keys}
Least(S) == CHOOSE x \in S : \A y \in S : x <= y

\* Where the specification places key on ring m.
Placement(m, key) ==
    LET h == Hash(m.hash, key)
        atOrAfter == {x \in RingHashes(m) : x >= h}
    IN  IF RingHashes(m) = {} THEN <<>>
        ELSE IF atOrAfter # {} THEN m.hashMap[Least(atOrAfter)]
        ELSE m.hashMap[Least(RingHashes(m))]

\* C16: on every ring the Add calls build, Get of every key returns ""
\* when there is no virtual node, else the node of the least virtual-node
\* hash >= the key's hash, else (none such) the node of the least
\* virtual-node hash of all; and what a Get call returned is that.
C16_Placement ==
    /\ \A key \in RingKeys : MapGet(ring, key) = Placement(ring, key)
    /\ ringLast # <<>> => ringLast[2] = Placement(ring, ringLast[1])

\* Get has wrapped around: key "27" on the ring of TestHashing, whose
\* greatest virtual node is 26, went to node "2".
C16_Witness ==
    /\ ring.replicas = 3 /\ ring.hash = "atoi"
    /\ ring.keys = <<2, 4, 6, 12, 14, 16, 22, 24, 26>>
    /\ ringLast = <<(<<2, 7>>), (<<2>>)>>

\* The node ids handed to the Add calls so far, in order, and as a set.
RECURSIVE Flatten(_)
Flatten(lists) == IF lists = <<>> THEN <<>> ELSE lists[1] \o Flatten(Tail(lists))
AddedIds == {Flatten(added)[i] : i \in DOMAIN Flatten(added)}
AddedOnce == Cardinality(AddedIds) = Len(Flatten(added))

\* The ring of the same replicas and hash function to which the node ids
\* added so far are added in ascending order, in one call.
Ascending(ids) ==
    LET nums == SortInts([i \in DOMAIN ids |-> Atoi(ids[i])])
    IN  [i \in DOMAIN ids |-> Itoa(nums[i])]
AscendingRing == MapAdd(MapNew(ring.replicas, ring.hash), Ascending(Flatten(added)))

\* No virtual nodes of two different nodes added have the same hash.
NoCollision ==
    \A a, b \in AddedIds : \A i, j \in 0..(ring.replicas - 1) :
        a # b => Hash(ring.hash, Itoa(i) \o a) # Hash(ring.hash, Itoa(j) \o b)

\* C17 as stated: whatever the hash function, a ring to which a set of
\* node ids was added in some order gives every key the owner that the
\* ring with the ids added in ascending order gives it.
C17_AnyHashAnyOrder ==
    AddedOnce => \A key \in RingKeys : MapGet(ring, key) = MapGet(AscendingRing, key)

\* C17 as amended: the same, for a hash function under which virtual
\* nodes of different node ids do not collide.
C17_AnyOrder ==
    (AddedOnce /\ NoCollision)
        => \A key \in RingKeys : MapGet(ring, key) = MapGet(AscendingRing, key)

\* Three nodes were added in descending order, over two calls, with
\* TestHashing's hash, and a Get was served.
C17_Witness ==
    /\ added = <<(<<(<<6>>), (<<4>>)>>), (<<(<<2>>)>>)>>
    /\ ring.hash = "atoi" /\ ring.replicas = 3
    /\ NoCollision
    /\ ringLast # <<>> /\ ringLast[2] = MapGet(AscendingRing, ringLast[1])

\* C18: the ring holds replicas entries for each node id added, however
\* often and in whatever calls it was added.
C18_ReplicasPerNode ==
    Len(ring.keys) = ring.replicas * Cardinality(AddedIds)

(***************************************************************************)
(* Claims on the peer pool (PoolSpec)                                      *)
(***************************************************************************)
\* The pool as a Set(ids) run alone on it leaves it.
PoolAfterSet(ids) ==
    [pool EXCEPT !.peers = <<MapAdd(MapNew(defaultReplicas, defaultHash), ids)>>,
                 !.httpGetters = <<[peer \in {ids[i] : i \in DOMAIN ids}
                                        |-> NewGetter(pool, peer)]>>]

\* C14: every PickPeer returns what it returns on a pool some Set call
\* has been run on to its end: it never sees a ring not yet filled, nor
\* a ring whose nodes have no getter yet.
C14_SetAtomic ==
    \A k \in PoolPickers :
        picks[k].called
            => \E ids \in SetLists :
                  <<picks[k].getter, picks[k].ok>> = PickOf(PoolAfterSet(ids), picks[k].key)

\* C15: a PickPeer made while the pool is at rest after Set(ids) names
\* the owner the ring of ids gives the key, and returns (nil, false) when
\* that owner is "" or p.self, else true and the getter made for exactly
\* that owner.
C15_PickResult ==
    \A k \in PoolPickers :
        (picks[k].called /\ picks[k].quiet)
            => LET owner == MapGet(PoolAfterSet(picks[k].after).peers[1], picks[k].key)
               IN  /\ picks[k].peer = owner
                   /\ IF owner = <<>> \/ owner = PoolSelf
                      THEN picks[k].getter = NilGetter /\ ~picks[k].ok
                      ELSE /\ picks[k].ok
                           /\ picks[k].getter # NilGetter
                           /\ picks[k].getter = [baseURL |-> owner \o defaultBasePath]

\* With the pool at rest after Set("2", "3"), PickPeer("1") returned the
\* getter of node "2".
C15_Witness ==
    \E k \in PoolPickers :
        /\ picks[k].called /\ picks[k].quiet
        /\ picks[k].after = <<(<<2>>), (<<3>>)>>
        /\ picks[k].key = <<1>>
        /\ picks[k].ok /\ picks[k].getter = [baseURL |-> <<2>> \o defaultBasePath]

\* C31: no call of PickPeer faults, whatever state the pool is in, a pool
\* Set was never called on included; and a PickPeer made while the pool is
\* at rest after a Set of no peers returns (nil, false).
C31_PickPeerTotal ==
    /\ ~poolPanic
    /\ \A k \in PoolPickers :
          (picks[k].called /\ picks[k].quiet /\ picks[k].after = <<>>)
              => picks[k].getter = NilGetter /\ ~picks[k].ok

(***************************************************************************)
(* Claims on the group registry (RegSpec)                                  *)
(***************************************************************************)
\* C19: what GetGroup(name) has read from the registry, for as long as it
\* holds the reader lock, is the Group the latest NewGroup(name) made, a
\* later NewGroup of the name taking the place of an earlier one, and nil
\* when no NewGroup of that name has been made.
C19_RegistryLookup ==
    \A p \in RegProcs :
        rg[p].pc = "runlock" => rg[p].g = newest[rg[p].name]

\* A goroutine that made the first Group named "scores" now reads the
\* second one out of the registry.
C19_Witness ==
    \E p \in RegProcs :
        /\ rg[p].pc = "runlock"
        /\ rg[p].g = [name |-> "scores", id |-> 2]
        /\ rg[p].ret = [name |-> "scores", id |-> 1]

(***************************************************************************)
(* Claims on byte-views (ViewSpec)                                         *)
(***************************************************************************)
\* C20: whatever has been written through the slices code outside the
\* package holds (the getter's, the peer getter's, those ByteSlice
\* returned), a call of Len, ByteSlice or String on a view yields the
\* bytes the view was made with.
C20_ViewImmutable ==
    bvRead # <<>>
        => bvRead.out = IF bvRead.op = "Len"
                        THEN Len(views[bvRead.view].orig)
                        ELSE views[bvRead.view].orig

(***************************************************************************)
(* Claims on the cache shell (ShellSpec)                                   *)
(***************************************************************************)
\* C28: lru.New is called once at most, by an add, with the shell's
\* cacheBytes, and the lru is nil until then; a get that finds it nil
\* returns (zero, false) and leaves it nil; an lru once made is never
\* made again, so with no capacity limit every key an add has put in is
\* still there.
C28_Inv ==
    /\ built <= 1
    /\ (shell.lru = <<>>) <=> (built = 0)
    /\ shell.lru # <<>> => shell.lru[1].maxBytes = shell.cacheBytes
    /\ shell.lru = <<>> => shAdded = {}
    /\ (shell.lru # <<>> /\ shell.cacheBytes = 0) => shAdded \subseteq Resident(shell.lru[1])
    /\ \A p \in ShellProcs :
          (shProc[p].op = "get" /\ shProc[p].nilSeen)
             => shProc[p].ret = [value |-> <<>>, ok |-> FALSE]

C28_Step ==
    /\ \A p \in ShellProcs :
          (shProc[p].pc = "check" /\ shProc'[p].pc # "check"
                /\ shProc[p].op = "get" /\ shell.lru = <<>>)
             => /\ shell'.lru = <<>>
                /\ shProc'[p].pc = "unlock"
                /\ shProc'[p].ret = [value |-> <<>>, ok |-> FALSE]
    /\ shell.lru = <<>> /\ shell'.lru # <<>>
          => \E p \in ShellProcs : shProc[p].op = "add" /\ shProc[p].pc = "new"
    /\ shell.lru # <<>> => shell'.lru # <<>>
C28_LazyOnce == []C28_Inv /\ [][C28_Step]_vars

\* With no capacity limit, the add that made the lru and an add of another
\* key that found it made have both returned, and both keys are held.
C28_Witness ==
    \E p, q \in ShellProcs :
        /\ shProc[p].pc = "idle" /\ shProc[p].op = "add" /\ shProc[p].nilSeen
        /\ shProc[q].pc = "idle" /\ shProc[q].op = "add" /\ ~shProc[q].nilSeen
        /\ shProc[p].key # shProc[q].key
        /\ shell.cacheBytes = 0 /\ built = 1
        /\ Resident(shell.lru[1]) = {shProc[p].key, shProc[q].key}

====
